---- MODULE Spec2Model ----
(***************************************************************************)
(* A model of the bookstore assistant: the intent-classification pipeline  *)
(* (services/nlp_pipeline.py), the book catalog (services/book_service.py),*)
(* the recommendation engine (services/recommendation_engine.py) and the   *)
(* assistant that joins them (main.py).                                    *)
(*                                                                         *)
(* Strings are TLA+ strings; a character is a string of length one.        *)
(* Ratings are held in tenths (4.2 is 42), confidences as exact fractions  *)
(* [n, d] with d > 0, the confidence threshold in hundredths (0.3 is 30).  *)
(***************************************************************************)
EXTENDS Integers, Sequences, FiniteSets, TLC

VARIABLES
    books,      \* BookService.books: the catalog, in file order
    call,       \* the operation last invoked, with its arguments
    ret,        \* what that operation returned
    confidence_threshold,           \* NLPPipeline.confidence_threshold
    advanced_processing_enabled,    \* NLPPipeline.advanced_processing_enabled
    stats,      \* BookstoreAI.stats: the four counters
    configuring,    \* the configure_nlp call a second caller has in progress
    remembered  \* a recommendation a caller keeps, with the call that gave it

vars == <<books, call, ret, confidence_threshold, advanced_processing_enabled, stats,
          configuring, remembered>>

\* What an operation of the pipeline's settings may write.
settings == <<confidence_threshold, advanced_processing_enabled>>

(***************************************************************************)
(* Characters and the str methods the pipeline uses.                       *)
(***************************************************************************)
CharAt(s, i) == SubSeq(s, i, i)

CharsOf(s) == { CharAt(s, i) : i \in 1..Len(s) }

UpperLetters == "ABCDEFGHIJKLMNOPQRSTUVWXYZÁÀÂÃÇÉÊÍÓÔÕÚ"

LowerLetters == "abcdefghijklmnopqrstuvwxyzáàâãçéêíóôõú"

\* A lower-case letter with no upper-case letter of its own: str.upper()
\* writes it as two letters, str.lower() leaves it.
SharpS == "ß"

Digits == "0123456789"

WordChars ==
    CharsOf(UpperLetters) \cup CharsOf(LowerLetters) \cup {SharpS} \cup CharsOf(Digits) \cup {"_"}

DigitChars == CharsOf(Digits)

SpaceChars == {" ", "\t", "\n", "\r", "\f"}

LowerOf == [c \in CharsOf(UpperLetters) |->
              CharAt(LowerLetters, CHOOSE i \in 1..Len(UpperLetters) : CharAt(UpperLetters, i) = c)]

LowerChar(c) == IF c \in DOMAIN LowerOf THEN LowerOf[c] ELSE c

MinOf(S) == CHOOSE x \in S : \A y \in S : x <= y

MaxOf(S) == CHOOSE x \in S : \A y \in S : x >= y

\* str.lower(), character by character (the string taken in halves).
RECURSIVE lower(_)
lower(s) ==
    IF Len(s) <= 1 THEN LowerChar(s)
    ELSE LET half == Len(s) \div 2
         IN lower(SubSeq(s, 1, half)) \o lower(SubSeq(s, half + 1, Len(s)))

\* str.strip(): from the first to the last character that is not whitespace.
strip(s) ==
    LET inked == {i \in 1..Len(s) : CharAt(s, i) \notin SpaceChars}
    IN IF inked = {} THEN "" ELSE SubSeq(s, MinOf(inked), MaxOf(inked))

\* `sub in s`: sub occurs in s as a contiguous run of characters.
Contains(s, sub) == \E i \in 1..(Len(s) - Len(sub) + 1) : SubSeq(s, i, i + Len(sub) - 1) = sub

DigitValue(c) == CHOOSE v \in 0..9 : CharAt(Digits, v + 1) = c

\* int(s) for a string of decimal digits.
RECURSIVE int(_)
int(s) == IF Len(s) = 1 THEN DigitValue(s)
          ELSE 10 * int(SubSeq(s, 1, Len(s) - 1)) + DigitValue(CharAt(s, Len(s)))

(***************************************************************************)
(* Regular expressions, as Python's re module matches them: a pattern is a *)
(* sequence of nodes, tried by backtracking in priority order, under       *)
(* re.IGNORECASE.  re.search returns the leftmost match.                   *)
(***************************************************************************)
Lit(s) == [k |-> "lit", s |-> s]                    \* literal text
Cls(S) == [k |-> "cls", cs |-> S]                   \* one character of a set: [ae] \d \s
Wrd == [k |-> "wrd"]                                \* \w
Dot == [k |-> "dot"]                                \* . (any character but a newline)
Rep(c, lo, hi, lazy) == [k |-> "rep", c |-> c, lo |-> lo, hi |-> hi, lazy |-> lazy]
Opt(r) == [k |-> "opt", r |-> r]                    \* (?:r)? , greedy
Alt(rs) == [k |-> "alt", rs |-> rs]                 \* r1|r2|...
Grp(n, r) == [k |-> "grp", n |-> n, r |-> r]        \* capturing group number n
Eol == [k |-> "eol"]                                \* $
Wb == [k |-> "wb"]                                  \* \b

Unbounded == 1000000

Plus(c) == Rep(c, 1, Unbounded, FALSE)              \* c+
LazyPlus(c) == Rep(c, 1, Unbounded, TRUE)           \* c+?

\* An alternation of literals: (triste|feliz|...).
RECURSIVE LitSeqs(_)
LitSeqs(ws) == IF ws = <<>> THEN <<>> ELSE << <<Lit(Head(ws))>> >> \o LitSeqs(Tail(ws))

Words(ws) == Alt(LitSeqs(ws))

NoSpan == <<0, 0>>

NoGroups == <<NoSpan, NoSpan>>

NoMatch == [ok |-> FALSE]

IsWordAt(t, i) == i >= 1 /\ i <= Len(t) /\ CharAt(t, i) \in WordChars

\* One character against a one-character node, ignoring case.
CharMatches(c, node) ==
    CASE node.k = "cls" -> (c \in node.cs \/ LowerChar(c) \in node.cs)
      [] node.k = "wrd" -> c \in WordChars
      [] node.k = "dot" -> c # "\n"
      [] OTHER -> FALSE

\* How many characters from position i on match the one-character node, up to max.
RunLength(t, node, i, max) ==
    LET stops == {j \in i..Len(t) : ~CharMatches(CharAt(t, j), node)}
        run == IF stops = {} THEN Len(t) - i + 1 ELSE MinOf(stops) - i
    IN IF run <= max THEN run ELSE max

\* The literal s at position i of t, ignoring case (s is in lower case).
LitMatches(t, i, s) ==
    /\ i + Len(s) - 1 <= Len(t)
    /\ LowerChar(CharAt(t, i)) = CharAt(s, 1)
    /\ lower(SubSeq(t, i, i + Len(s) - 1)) = s

RECURSIVE MatchHere(_, _, _, _)

\* The nodes of `todo` matched from position i of t on: the first success in
\* backtracking order, with the groups' spans, or NoMatch.
MatchHere(t, todo, i, g) ==
    IF todo = <<>> THEN [ok |-> TRUE, end |-> i, g |-> g]
    ELSE LET node == Head(todo)
             rest == Tail(todo)
         IN CASE node.k = "lit" ->
                   IF LitMatches(t, i, node.s)
                   THEN MatchHere(t, rest, i + Len(node.s), g)
                   ELSE NoMatch
              [] node.k \in {"cls", "wrd", "dot"} ->
                   IF i <= Len(t) /\ CharMatches(CharAt(t, i), node)
                   THEN MatchHere(t, rest, i + 1, g)
                   ELSE NoMatch
              [] node.k = "rep" ->
                   \* the counts that let the rest match: a lazy repetition
                   \* takes the fewest, a greedy one the most
                   LET run == RunLength(t, node.c, i, node.hi)
                       fits == {n \in node.lo..run : MatchHere(t, rest, i + n, g).ok}
                   IN IF fits = {} THEN NoMatch
                      ELSE MatchHere(t, rest,
                                     i + (IF node.lazy THEN MinOf(fits) ELSE MaxOf(fits)), g)
              [] node.k = "opt" ->
                   LET taken == MatchHere(t, node.r \o rest, i, g)
                   IN IF taken.ok THEN taken ELSE MatchHere(t, rest, i, g)
              [] node.k = "alt" ->
                   \* the first alternative that lets the rest match
                   LET fits == {a \in 1..Len(node.rs) :
                                   MatchHere(t, node.rs[a] \o rest, i, g).ok}
                   IN IF fits = {} THEN NoMatch
                      ELSE MatchHere(t, node.rs[MinOf(fits)] \o rest, i, g)
              [] node.k = "grp" ->
                   MatchHere(t, node.r \o <<[k |-> "close", n |-> node.n, from |-> i]>> \o rest, i, g)
              [] node.k = "close" ->
                   MatchHere(t, rest, i, [g EXCEPT ![node.n] = <<node.from, i>>])
              [] node.k = "eol" ->
                   IF i = Len(t) + 1 \/ (i = Len(t) /\ CharAt(t, i) = "\n")
                   THEN MatchHere(t, rest, i, g)
                   ELSE NoMatch
              [] node.k = "wb" ->
                   IF IsWordAt(t, i - 1) # IsWordAt(t, i)
                   THEN MatchHere(t, rest, i, g)
                   ELSE NoMatch

\* A span <<from, to>> of a match holds the characters from .. to-1.
SpanText(t, span) == SubSeq(t, span[1], span[2] - 1)

\* The leftmost match that starts at position i or later.
SearchFrom(t, pat, i) ==
    LET starts == {j \in i..(Len(t) + 1) : MatchHere(t, pat, j, NoGroups).ok}
    IN IF starts = {} THEN NoMatch
       ELSE LET m == MatchHere(t, pat, MinOf(starts), NoGroups)
            IN [ok |-> TRUE, start |-> MinOf(starts), end |-> m.end, g |-> m.g]

\* re.search(pattern, text, re.IGNORECASE)
re_search(pat, t) == SearchFrom(t, pat, 1)

\* match.group(n): the text of group n, where Participated(m, n).
Participated(m, n) == m.g[n] # NoSpan

Group(t, m, n) == SpanText(t, m.g[n])

Group0(t, m) == SubSeq(t, m.start, m.end - 1)

\* re.sub(pattern, repl, text, flags=re.IGNORECASE): every non-overlapping
\* match, left to right, replaced by repl.
RECURSIVE SubFrom(_, _, _, _)
SubFrom(t, pat, repl, i) ==
    LET m == SearchFrom(t, pat, i)
    IN IF ~m.ok THEN SubSeq(t, i, Len(t))
       ELSE SubSeq(t, i, m.start - 1) \o repl \o SubFrom(t, pat, repl, m.end)

re_sub(pat, repl, t) == SubFrom(t, pat, repl, 1)

(***************************************************************************)
(* The lexical tables of NLPPipeline.__init__.  A dict is the sequence of  *)
(* its <<key, value>> pairs in insertion order, which is the order Python  *)
(* iterates it in.                                                         *)
(***************************************************************************)
WordGroup == Grp(1, <<Plus(Wrd)>>)                  \* (\w+)

LazyGroup == Grp(1, <<LazyPlus(Dot)>>)              \* (.+?)

SpaceOrEnd == Alt(<< <<Cls(SpaceChars)>>, <<Eol>> >>)   \* (?:\s|$)

CompoundGenres == Grp(1, <<Words(<<"ficção científica", "literatura brasileira">>)>>)

Year4 == Grp(1, <<Rep(Cls(DigitChars), 4, 4, FALSE)>>)  \* (\d{4})

genre_patterns ==
    << <<Lit("gosto de livros de "), WordGroup>>,
       <<Lit("recomend"), Cls({"a", "e"}), Lit(" livros de "), WordGroup>>,
       <<Lit("livros do g"), Cls({"ê", "e"}), Lit("nero "), WordGroup>>,
       <<Lit("quero ler "), WordGroup>>,
       <<Lit("me interessa"), Opt(<<Lit("m")>>), Lit(" "), WordGroup>>,
       <<Lit("curto "), WordGroup>>,
       <<Lit("adoro "), WordGroup>>,
       <<Lit("gosto de "), CompoundGenres>>,
       <<Lit("quero ler "), CompoundGenres>>,
       <<Lit("livros de "), CompoundGenres>>,
       <<Lit("recomend"), Cls({"a", "e"}), Lit(" "), CompoundGenres>>,
       <<Lit("algo de "), WordGroup>>,
       <<Lit("livros "), WordGroup>>,
       <<Lit("estou procurando "), WordGroup>>,
       <<Lit("queria "), WordGroup>>,
       <<Lit("busco "), WordGroup>>,
       <<Lit("preciso de "), WordGroup>> >>

author_patterns ==
    << <<Lit("livros do autor "), LazyGroup, SpaceOrEnd>>,
       <<Lit("obras de "), LazyGroup, SpaceOrEnd>>,
       <<Lit("mostre livros de "), LazyGroup, SpaceOrEnd>>,
       <<Lit("autor "), LazyGroup, SpaceOrEnd>>,
       <<Lit("escrito por "), LazyGroup, SpaceOrEnd>>,
       <<LazyGroup, Lit(" escreveu")>>,
       <<Lit("tem "), LazyGroup, Lit(" na biblioteca")>>,
       <<Lit("conhece "), Opt(<<LazyGroup>>)>>,
       <<Lit("já leu "), Opt(<<LazyGroup>>)>> >>

similar_patterns ==
    << <<Lit("li o livro "), LazyGroup, Lit(" e gostei")>>,
       <<Lit("gostei do livro "), LazyGroup>>,
       <<Lit("similar ao "), LazyGroup>>,
       <<Lit("parecido com "), LazyGroup>>,
       <<Lit("baseado em "), LazyGroup>>,
       <<Lit("como "), LazyGroup>>,
       <<Lit("estilo "), LazyGroup>>,
       <<Lit("no mesmo tom de "), LazyGroup>>,
       <<Lit("que lembre "), LazyGroup>> >>

year_patterns ==
    << <<Lit("livros de "), Year4>>,
       <<Lit("publicados em "), Year4>>,
       <<Lit("do ano "), Year4>>,
       <<Lit("lan"), Cls({"ç", "c"}), Lit("ados em "), Year4>>,
       <<Lit("dos anos "), Year4>>,
       <<Lit("da década de "), Year4>>,
       <<Lit("século "), Grp(1, <<Rep(Cls(DigitChars), 1, 2, FALSE)>>)>> >>

bestseller_patterns ==
    << <<Lit("bestseller"), Opt(<<Lit("s")>>)>>,
       <<Lit("mais vendidos")>>,
       <<Lit("livros famosos")>>,
       <<Lit("populares")>>,
       <<Lit("sucessos")>>,
       <<Lit("consagrados")>>,
       <<Lit("aclamados")>>,
       <<Lit("premiados")>> >>

non_bestseller_patterns ==
    << <<Lit("n"), Cls({"ã", "a"}), Lit("o bestseller"), Opt(<<Lit("s")>>)>>,
       <<Lit("menos conhecidos")>>,
       <<Lit("livros raros")>>,
       <<Lit("indie"), Opt(<<Lit("s")>>)>>,
       <<Lit("independentes")>>,
       <<Lit("cult")>>,
       <<Lit("underground")>>,
       <<Lit("nicho")>> >>

mood_patterns ==
    << <<Lit("estou "), Opt(<<Grp(1, <<Lit("me sentindo ")>>)>>), Opt(<<Lit("muito ")>>),
         Grp(2, <<Words(<<"triste", "feliz", "estressado", "ansioso", "deprimido",
                          "animado", "bem", "mal">>)>>)>>,
       <<Lit("me sentindo "),
         Grp(1, <<Words(<<"triste", "feliz", "estressado", "ansioso", "deprimido",
                          "animado", "bem", "mal", "para baixo">>)>>)>>,
       <<Lit("preciso de algo "), Opt(<<Lit("que me ")>>),
         Grp(1, <<Words(<<"anime", "relaxe", "emocione", "inspire", "divirta">>)>>)>>,
       <<Lit("quero "),
         Grp(1, <<Words(<<"chorar", "rir", "me emocionar", "relaxar", "me inspirar">>)>>)>>,
       <<Lit("algo "),
         Grp(1, <<Words(<<"emocionante", "relaxante", "triste", "divertido", "inspirador",
                          "leve", "pesado">>)>>)>>,
       <<Lit("humor "),
         Grp(1, <<Words(<<"triste", "feliz", "estressado", "ansioso", "animado">>)>>)>>,
       <<Lit("dia "), Grp(1, <<Words(<<"ruim", "bom", "difícil", "estressante">>)>>)>>,
       <<Lit("preciso "), Grp(1, <<Words(<<"relaxar", "me animar", "chorar", "rir">>)>>)>>,
       <<Lit("estou "),
         Grp(1, <<Words(<<"nostálgico", "melancólico", "reflexivo", "contemplativo">>)>>)>>,
       <<Lit("preciso "), Grp(1, <<Words(<<"refletir", "pensar", "filosofar", "meditar">>)>>)>>,
       <<Lit("quero algo "),
         Grp(1, <<Words(<<"profundo", "superficial", "intelectual", "simples">>)>>)>> >>

occasion_patterns ==
    << <<Lit("vou "),
         Grp(1, <<Words(<<"viajar", "para a praia", "de férias", "trabalhar">>)>>)>>,
       <<Lit("para ler "),
         Grp(1, <<Words(<<"na praia", "no avião", "antes de dormir", "no trabalho">>)>>)>>,
       <<Lit("algo para "),
         Grp(1, <<Words(<<"relaxar", "passar o tempo", "viagem", "férias">>)>>)>>,
       <<Lit("leitura "),
         Grp(1, <<Words(<<"leve", "rápida", "para viagem", "de férias">>)>>)>>,
       <<Lit("para "), Grp(1, <<Words(<<"estudar", "aprender", "crescer", "evoluir">>)>>)>>,
       <<Lit("no "), Grp(1, <<Words(<<"metrô", "ônibus", "trem", "transporte">>)>>)>>,
       <<Lit("entre "), Grp(1, <<Words(<<"aulas", "reuniões", "compromissos">>)>>)>> >>

intent_patterns ==
    << <<"recommend_by_genre", genre_patterns>>,
       <<"recommend_by_author", author_patterns>>,
       <<"recommend_similar", similar_patterns>>,
       <<"books_by_year", year_patterns>>,
       <<"bestsellers", bestseller_patterns>>,
       <<"non_bestsellers", non_bestseller_patterns>>,
       <<"recommend_by_mood", mood_patterns>>,
       <<"recommend_by_occasion", occasion_patterns>> >>

mood_to_genre ==
    << <<"triste", "Romance">>, <<"deprimido", "Autoajuda">>, <<"mal", "Romance">>,
       <<"para baixo", "Autoajuda">>, <<"desanimado", "Autoajuda">>,
       <<"perdido", "Filosofia">>, <<"confuso", "Filosofia">>, <<"cansado", "Romance">>,
       <<"nostálgico", "Romance">>, <<"melancólico", "Romance">>,
       <<"feliz", "Fantasia">>, <<"animado", "Thriller">>, <<"bem", "História">>,
       <<"motivado", "Biografia">>, <<"empolgado", "Fantasia">>,
       <<"confiante", "Thriller">>, <<"determinado", "Biografia">>,
       <<"reflexivo", "Filosofia">>, <<"contemplativo", "Filosofia">>,
       <<"anime", "Romance">>, <<"relaxe", "Romance">>, <<"emocione", "Romance">>,
       <<"inspire", "Biografia">>, <<"divirta", "Fantasia">>, <<"chorar", "Romance">>,
       <<"rir", "Romance">>, <<"relaxar", "Romance">>, <<"refletir", "Filosofia">>,
       <<"pensar", "Filosofia">>, <<"filosofar", "Filosofia">>, <<"meditar", "Filosofia">>,
       <<"emocionante", "Thriller">>, <<"relaxante", "Romance">>,
       <<"divertido", "Fantasia">>, <<"inspirador", "Biografia">>, <<"leve", "Romance">>,
       <<"pesado", "Filosofia">>, <<"profundo", "Filosofia">>,
       <<"superficial", "Romance">>, <<"intelectual", "Filosofia">>,
       <<"simples", "Romance">> >>

occasion_to_genre ==
    << <<"viajar", "Romance">>, <<"praia", "Romance">>, <<"férias", "Fantasia">>,
       <<"fim de semana", "Fantasia">>, <<"feriado", "Fantasia">>,
       <<"tempo livre", "Romance">>, <<"relaxar", "Romance">>,
       <<"trabalhar", "Autoajuda">>, <<"trabalho", "Autoajuda">>,
       <<"estudar", "História">>, <<"aprender", "História">>, <<"crescer", "Autoajuda">>,
       <<"evoluir", "Biografia">>, <<"avião", "Mistério">>, <<"metrô", "Thriller">>,
       <<"ônibus", "Romance">>, <<"trem", "Mistério">>, <<"transporte", "Romance">>,
       <<"dormir", "Romance">>, <<"aulas", "Filosofia">>, <<"reuniões", "Autoajuda">>,
       <<"compromissos", "Romance">>, <<"viagem", "Mistério">> >>

genre_synonyms ==
    << <<"terror", <<"horror", "medo", "assombração", "suspense", "assustador", "macabro",
                     "sombrio", "gótico">> >>,
       <<"romance", <<"amor", "romântico", "paixão", "amoroso", "sentimental", "emocional",
                      "tocante", "dramático">> >>,
       <<"thriller", <<"suspense", "ação", "tensão", "mistério", "emocionante",
                       "adrenalina", "investigação">> >>,
       <<"ficção científica", <<"sci-fi", "futurista", "espacial", "ficção", "científica",
                                "futurismo", "distopia", "cyberpunk">> >>,
       <<"fantasia", <<"magia", "épico", "medieval", "mágico", "fantástico", "aventura",
                       "mitológico", "lendário">> >>,
       <<"autoajuda", <<"auto-ajuda", "desenvolvimento", "pessoal", "motivação", "sucesso",
                        "crescimento", "coaching", "liderança">> >>,
       <<"história", <<"histórico", "passado", "civilização", "humanidade", "histórica",
                       "época", "guerra", "biografia histórica">> >>,
       <<"filosofia", <<"filosófico", "reflexão", "pensamento", "existencial", "reflexivo",
                        "profundo", "intelectual", "contemplativo">> >>,
       <<"biografia", <<"biográfico", "vida", "personalidade", "famoso", "autobiografia",
                        "memórias", "trajetória", "história de vida">> >>,
       <<"mistério", <<"misterioso", "enigma", "detetive", "investigação", "crime",
                       "policial", "suspense", "noir">> >>,
       <<"literatura brasileira", <<"brasileiro", "brasil", "nacional", "literatura",
                                    "brasiliense", "tupiniquim", "verde-amarelo">> >> >>

famous_authors ==
    << <<"stephen king", <<"king", "stephen", "steve king">> >>,
       <<"dan brown", <<"brown", "dan", "daniel brown">> >>,
       <<"j.k. rowling", <<"rowling", "jk rowling", "joanne rowling">> >>,
       <<"j.r.r. tolkien", <<"tolkien", "jrr tolkien", "john tolkien">> >>,
       <<"agatha christie", <<"christie", "agatha">> >>,
       <<"arthur conan doyle", <<"doyle", "conan doyle", "arthur doyle">> >>,
       <<"george orwell", <<"orwell", "george">> >>,
       <<"isaac asimov", <<"asimov", "isaac">> >>,
       <<"frank herbert", <<"herbert", "frank">> >>,
       <<"h.g. wells", <<"wells", "hg wells", "herbert wells">> >>,
       <<"edgar allan poe", <<"poe", "edgar poe", "allan poe">> >>,
       <<"franz kafka", <<"kafka", "franz">> >>,
       <<"albert camus", <<"camus", "albert">> >>,
       <<"gabriel garcía márquez", <<"márquez", "garcia marquez", "gabriel garcia">> >>,
       <<"machado de assis", <<"machado", "assis", "machado assis">> >>,
       <<"paulo coelho", <<"coelho", "paulo">> >>,
       <<"yuval noah harari", <<"harari", "yuval", "noah harari">> >> >>

\* dict.get(key, default) and `key in dict` on a dict held as pairs.
HasKey(dict, key) == \E i \in 1..Len(dict) : dict[i][1] = key

\* A faulty variant of Get: the default whatever the key.
DefaultOnly(dict, key, default) == default

Get(dict, key, default) ==
    IF HasKey(dict, key)
    THEN dict[CHOOSE i \in 1..Len(dict) : dict[i][1] = key][2]
    ELSE default

\* `x in list`
InList(x, list) == \E i \in 1..Len(list) : list[i] = x

(***************************************************************************)
(* Optional values, fractions, and the outcome of a call.                  *)
(***************************************************************************)
None == <<>>

Some(x) == <<x>>

Frac(n, d) == [n |-> n, d |-> d]

FracLess(a, b) == a.n * b.d < b.n * a.d

FracLeq(a, b) == a.n * b.d <= b.n * a.d

FracEq(a, b) == a.n * b.d = b.n * a.d

Min(x, y) == IF x <= y THEN x ELSE y

Max(x, y) == IF x >= y THEN x ELSE y

\* An exception that leaves the operation.
Raised(e) == [exc |-> e]

IsRaised(r) == "exc" \in DOMAIN r

Intent(name, confidence, entities) ==
    [name |-> name, confidence |-> confidence, entities |-> entities]

(***************************************************************************)
(* NLPPipeline._expand_synonyms                                            *)
(***************************************************************************)
\* One synonym of main_genre replaced, as the loop body does.
ExpandOne(text, main_genre, synonym) == re_sub(<<Wb, Lit(synonym), Wb>>, main_genre, text)

\* The (main_genre, synonym) pairs in the order the two loops visit them.
RECURSIVE PairsOf(_, _)
PairsOf(main_genre, synonyms) ==
    IF synonyms = <<>> THEN <<>>
    ELSE << <<main_genre, Head(synonyms)>> >> \o PairsOf(main_genre, Tail(synonyms))

RECURSIVE PairsFrom(_)
PairsFrom(gi) ==
    IF gi > Len(genre_synonyms) THEN <<>>
    ELSE PairsOf(genre_synonyms[gi][1], genre_synonyms[gi][2]) \o PairsFrom(gi + 1)

SynonymPairs == PairsFrom(1)

\* The loop over pairs lo..hi, run as its first half and then its second
\* (nothing is replaced in the empty text).
RECURSIVE ExpandRange(_, _, _)
ExpandRange(text, lo, hi) ==
    IF text = "" THEN ""
    ELSE IF lo = hi THEN ExpandOne(text, SynonymPairs[lo][1], SynonymPairs[lo][2])
    ELSE LET mid == (lo + hi) \div 2
         IN ExpandRange(ExpandRange(text, lo, mid), mid + 1, hi)

_expand_synonyms(text) == ExpandRange(text, 1, Len(SynonymPairs))

(***************************************************************************)
(* NLPPipeline._calculate_confidence                                       *)
(***************************************************************************)
\* A faulty variant of FallbackConfidence: no confidence at all.
NoConfidence == Frac(0, 1)

FallbackConfidence == Frac(3, 10)

\* min(base_confidence, 0.95), the value in hundredths of text_length.
\* A faulty variant of ClampConfidence: the final min(..., 0.95) left out.
Unclamped(n, text_length) == n

ClampConfidence(n, text_length) == Min(n, 95 * text_length)

_calculate_confidence(text, pattern) ==
    LET match == re_search(pattern, text)
        match_length == match.end - match.start
        text_length == Len(text)
        base == Min(95 * text_length, 200 * match_length)
        \* match.start() < len(text) * 0.3, with match.start() counted from 0
        bonus == IF 10 * (match.start - 1) < 3 * text_length THEN 10 * text_length ELSE 0
    IN IF match.ok /\ text_length > 0
       THEN Frac(ClampConfidence(base + bonus, text_length), 100 * text_length)
       ELSE FallbackConfidence

(***************************************************************************)
(* difflib.SequenceMatcher(None, a, b).ratio(), without junk: the longest  *)
(* common block, then the same to its left and to its right.  Positions    *)
(* are 1-based, ranges are lo..hi-1.                                       *)
(***************************************************************************)
\* How many characters a from i on and b from j on have in common.
CommonLength(a, i, ahi, b, j, bhi) ==
    LET room == IF ahi - i <= bhi - j THEN ahi - i ELSE bhi - j
    IN MinOf({n \in 0..room : n = room \/ CharAt(a, i + n) # CharAt(b, j + n)})

\* find_longest_match: <<i, j, k>> with k maximal, then i minimal, then j minimal.
find_longest_match(a, alo, ahi, b, blo, bhi) ==
    LET pairs == (alo..(ahi - 1)) \X (blo..(bhi - 1))
        len == [p \in pairs |-> CommonLength(a, p[1], ahi, b, p[2], bhi)]
        longest == IF pairs = {} THEN 0
                   ELSE CHOOSE k \in {len[p] : p \in pairs} : \A q \in pairs : len[q] <= k
        best == {p \in pairs : len[p] = longest}
        i == MinOf({p[1] : p \in best})
        j == MinOf({p[2] : p \in {q \in best : q[1] = i}})
    IN IF longest = 0 THEN <<alo, blo, 0>> ELSE <<i, j, longest>>

\* The total size of the matching blocks of a[alo..ahi-1] and b[blo..bhi-1].
RECURSIVE MatchingSize(_, _, _, _, _, _)
MatchingSize(a, alo, ahi, b, blo, bhi) ==
    LET m == find_longest_match(a, alo, ahi, b, blo, bhi)
    IN IF m[3] = 0 THEN 0
       ELSE m[3] + MatchingSize(a, alo, m[1], b, blo, m[2])
                 + MatchingSize(a, m[1] + m[3], ahi, b, m[2] + m[3], bhi)

ratio(a, b) ==
    IF Len(a) + Len(b) = 0 THEN Frac(1, 1)
    ELSE Frac(2 * MatchingSize(a, 1, Len(a) + 1, b, 1, Len(b) + 1), Len(a) + Len(b))

(***************************************************************************)
(* NLPPipeline._find_best_author_match                                     *)
(***************************************************************************)
\* A faulty variant of SimilarityThreshold: half alike is alike enough.
HalfAlike == Frac(1, 2)

SimilarityThreshold == Frac(7, 10)

\* The body of the similarity loop for author number k: best holds best_match
\* and best_ratio.
SimilarityStep(author_lower, k, best) ==
    LET author == famous_authors[k][1]
        r == ratio(author_lower, author)
    IN IF FracLess(best.ratio, r) /\ FracLess(SimilarityThreshold, r)
       THEN [match |-> Some(author), ratio |-> r]
       ELSE best

\* The similarity loop over authors lo..hi, run as its first half and then its second.
RECURSIVE BestBySimilarity(_, _, _, _)
BestBySimilarity(author_lower, lo, hi, best) ==
    IF lo = hi THEN SimilarityStep(author_lower, lo, best)
    ELSE LET mid == (lo + hi) \div 2
             first == BestBySimilarity(author_lower, lo, mid, best)
         IN BestBySimilarity(author_lower, mid + 1, hi, first)

_find_best_author_match(author_input) ==
    LET author_lower == strip(lower(author_input))
        listing == {k \in 1..Len(famous_authors) : InList(author_lower, famous_authors[k][2])}
    IN IF HasKey(famous_authors, author_lower) THEN Some(author_lower)
       ELSE IF listing # {}
       THEN Some(famous_authors[CHOOSE k \in listing : \A o \in listing : k <= o][1])
       ELSE BestBySimilarity(author_lower, 1, Len(famous_authors),
                             [match |-> None, ratio |-> Frac(0, 1)]).match

(***************************************************************************)
(* NLPPipeline.process                                                     *)
(***************************************************************************)
\* match.groups() is a non-empty tuple: the pattern has a capturing group.
RECURSIVE HasGroup(_)
HasGroup(pattern) ==
    /\ pattern # <<>>
    /\ \/ Head(pattern).k = "grp"
       \/ Head(pattern).k = "opt" /\ HasGroup(Head(pattern).r)
       \/ HasGroup(Tail(pattern))

\* A faulty variant of AuthorOf: no author when the name is not resolved.
CanonicalOrNothing(author_name) ==
    LET normalized_author == _find_best_author_match(author_name)
    IN IF normalized_author # None THEN normalized_author[1] ELSE ""

\* normalized_author if normalized_author else author_name
AuthorOf(author_name) ==
    LET normalized_author == _find_best_author_match(author_name)
    IN IF normalized_author # None THEN normalized_author[1] ELSE author_name

\* A faulty variant of YearOf: only a capture of one or two digits is taken
\* for a century.
CenturyOfShortCapture(text, year_str) ==
    IF Contains(text, "século") /\ Len(year_str) <= 2
    THEN (int(year_str) - 1) * 100 + 50
    ELSE int(year_str)

\* The year of the branch books_by_year: the middle of the century when the
\* text holds 'século'.
YearOf(text, year_str) ==
    IF Contains(text, "século")
    THEN LET century == int(year_str) IN (century - 1) * 100 + 50
    ELSE int(year_str)

\* The entities of the branch `if match.groups():`, or the AttributeError of
\* None.strip() when group 1 took no part in the match.
Entities(intent_name, text, match) ==
    LET has1 == Participated(match, 1)
        group1 == Group(text, match, 1)
        \* match.group(1).strip() if match.group(1) else match.group(0).strip()
        word == IF has1 /\ group1 # "" THEN strip(group1) ELSE strip(Group0(text, match))
    IN CASE intent_name \in {"recommend_by_genre", "recommend_similar"} ->
              IF has1 THEN ("target" :> strip(group1)) ELSE Raised("AttributeError")
         [] intent_name = "recommend_by_author" ->
              IF ~has1 THEN Raised("AttributeError")
              ELSE ("author" :> AuthorOf(strip(group1)))
         [] intent_name = "books_by_year" ->
              IF ~has1 THEN Raised("TypeError") ELSE ("year" :> YearOf(text, group1))
         [] intent_name = "recommend_by_mood" ->
              ("mood" :> word) @@ ("target" :> Get(mood_to_genre, word, "Romance"))
         [] intent_name = "recommend_by_occasion" ->
              ("occasion" :> word) @@ ("target" :> Get(occasion_to_genre, word, "Romance"))
         [] OTHER -> <<>>

\* The body of `if match:` for the pattern that matched.
OnMatch(intent_name, pattern, text, match) ==
    LET confidence == _calculate_confidence(text, pattern)
        entities == IF HasGroup(pattern) THEN Entities(intent_name, text, match) ELSE <<>>
    IN IF IsRaised(entities) THEN entities
       ELSE Intent(intent_name, confidence, entities)

\* The <<intent_name, pattern>> pairs in the order the two loops visit them.
RECURSIVE PatternsOf(_, _)
PatternsOf(intent_name, patterns) ==
    IF patterns = <<>> THEN <<>>
    ELSE << <<intent_name, Head(patterns)>> >> \o PatternsOf(intent_name, Tail(patterns))

RECURSIVE PatternsFrom(_)
PatternsFrom(ii) ==
    IF ii > Len(intent_patterns) THEN <<>>
    ELSE PatternsOf(intent_patterns[ii][1], intent_patterns[ii][2]) \o PatternsFrom(ii + 1)

PatternOrder == PatternsFrom(1)

\* A faulty variant of FirstMatching: the last pattern that matches wins.
LastMatching(text, lo, hi) ==
    LET matching == {k \in lo..hi : re_search(PatternOrder[k][2], text).ok}
    IN IF matching = {} THEN 0 ELSE MaxOf(matching)

\* The number in PatternOrder of the first pattern among lo..hi that matches
\* text, 0 when none does: the loops over lo..hi, run as two halves.
RECURSIVE FirstMatching(_, _, _)
FirstMatching(text, lo, hi) ==
    IF lo = hi THEN (IF re_search(PatternOrder[lo][2], text).ok THEN lo ELSE 0)
    ELSE LET mid == (lo + hi) \div 2
             first == FirstMatching(text, lo, mid)
         IN IF first # 0 THEN first ELSE FirstMatching(text, mid + 1, hi)

\* A faulty variant of Classify: a guess at the fallback confidence when no
\* pattern matches.
ClassifyWithFallback(text) ==
    LET k == FirstMatching(text, 1, Len(PatternOrder))
    IN IF k = 0 THEN Intent("unknown", FallbackConfidence, <<>>)
       ELSE OnMatch(PatternOrder[k][1], PatternOrder[k][2], text,
                    re_search(PatternOrder[k][2], text))

\* The loops of process over the prepared text.
Classify(text) ==
    LET k == FirstMatching(text, 1, Len(PatternOrder))
    IN IF k = 0 THEN Intent("unknown", Frac(0, 1), <<>>)
       ELSE OnMatch(PatternOrder[k][1], PatternOrder[k][2], text,
                    re_search(PatternOrder[k][2], text))

\* A faulty variant of Prepare: text.lower().strip() left out.
ExpandedOnly(text) == _expand_synonyms(text)

\* text.lower().strip(), then the synonyms expanded.
Prepare(text) == _expand_synonyms(strip(lower(text)))

process(text) == Classify(Prepare(text))

(***************************************************************************)
(* BookService: the catalog queries.  A book is a record; its rating is in *)
(* tenths.  The description takes no part in any query and is left out.    *)
(***************************************************************************)
Book(id, title, author, genre, year, bestseller, rating) ==
    [id |-> id, title |-> title, author |-> author, genre |-> genre, year |-> year,
     bestseller |-> bestseller, rating |-> rating]

\* A faulty variant of get_books_by_genre: a book a caller was given before is
\* not offered again.
NotOfferedAgain(genre) ==
    SelectSeq(books, LAMBDA book :
        /\ lower(book.genre) = lower(genre)
        /\ remembered = None \/ \A i \in 1..Len(remembered.ret) : remembered.ret[i] # book)

\* A faulty variant of get_books_by_genre: the whole catalog when it has no
\* book of the genre.
GenreOrEverything(genre) ==
    LET found == SelectSeq(books, LAMBDA book : lower(book.genre) = lower(genre))
    IN IF found = <<>> THEN books ELSE found

get_books_by_genre(genre) == SelectSeq(books, LAMBDA book : lower(book.genre) = lower(genre))

get_books_by_author(author) ==
    SelectSeq(books, LAMBDA book : Contains(lower(book.author), lower(author)))

get_books_by_year(year) == SelectSeq(books, LAMBDA book : book.year = year)

get_bestsellers(is_bestseller) == SelectSeq(books, LAMBDA book : book.bestseller = is_bestseller)

\* A faulty variant of find_book_by_title: the last book whose title holds
\* the fragment.
LastByTitle(title) ==
    LET found == {i \in 1..Len(books) : Contains(lower(books[i].title), lower(title))}
    IN IF found = {} THEN None ELSE Some(books[MaxOf(found)])

\* The first book whose title holds the fragment, or None.
find_book_by_title(title) ==
    LET found == {i \in 1..Len(books) : Contains(lower(books[i].title), lower(title))}
    IN IF found = {} THEN None ELSE Some(books[MinOf(found)])

(***************************************************************************)
(* RecommendationEngine                                                    *)
(***************************************************************************)
\* A faulty variant of RankByRating, sorted(list, key=rating)[::-1]: the
\* equally rated books come out in the reverse of the order they went in.
RankOfReversed(list, i) ==
    1 + Cardinality({j \in 1..Len(list) :
                       \/ list[j].rating > list[i].rating
                       \/ list[j].rating = list[i].rating /\ j > i})

\* Where list[i] stands in sorted(list, key=rating, reverse=True): after the
\* books rated higher and after the equally rated books listed before it
\* (Python's sort is stable, with reverse=True too).
RankByRating(list, i) ==
    1 + Cardinality({j \in 1..Len(list) :
                       \/ list[j].rating > list[i].rating
                       \/ list[j].rating = list[i].rating /\ j < i})

\* A faulty variant of sorted_by_rating: the list left in catalog order.
KeptInCatalogOrder(list) == list

sorted_by_rating(list) ==
    [p \in 1..Len(list) |-> list[CHOOSE i \in 1..Len(list) : RankByRating(list, i) = p]]

\* A faulty variant of Truncate: [:limit] left out.
WholeList(list, limit) == list

\* list[:limit]
Truncate(list, limit) ==
    IF limit >= 0 THEN SubSeq(list, 1, Min(limit, Len(list)))
    ELSE SubSeq(list, 1, Max(0, Len(list) + limit))

\* sorted(books, key=lambda x: x.rating, reverse=True)[:limit]
Ranked(list, limit) == Truncate(sorted_by_rating(list), limit)

DefaultLimit == 5

recommend_by_genre(genre, limit) == Ranked(get_books_by_genre(genre), limit)

recommend_by_author(author, limit) == Ranked(get_books_by_author(author), limit)

\* same_author_books + other_books
SameAuthorFirst(similar_books, target_book) ==
    SelectSeq(similar_books, LAMBDA book : book.author = target_book.author)
    \o SelectSeq(similar_books, LAMBDA book : book.author # target_book.author)

\* A faulty variant of recommend_similar_books: the reference book is left
\* among the books of its genre.
SimilarWithReference(book_title, limit) ==
    LET found == find_book_by_title(book_title)
    IN IF found = None THEN <<>>
       ELSE Ranked(SameAuthorFirst(get_books_by_genre(found[1].genre), found[1]), limit)

recommend_similar_books(book_title, limit) ==
    LET found == find_book_by_title(book_title)
        target_book == found[1]
        similar_books == SelectSeq(get_books_by_genre(target_book.genre),
                                   LAMBDA book : book.id # target_book.id)
        recommended == SameAuthorFirst(similar_books, target_book)
    IN IF found = None THEN <<>> ELSE Ranked(recommended, limit)

recommend_by_year(year, limit) == Ranked(get_books_by_year(year), limit)

recommend_bestsellers(is_bestseller, limit) == Ranked(get_bestsellers(is_bestseller), limit)

mood_to_genre_map ==
    << <<"triste", "Romance">>, <<"deprimido", "Romance">>, <<"estressado", "Romance">>,
       <<"ansioso", "Romance">>, <<"feliz", "Thriller">>, <<"animado", "Thriller">>,
       <<"relaxar", "Romance">>, <<"inspirar", "Ficção Científica">> >>

\* A faulty variant of negative_moods: 'mal' left out.
NegativeMoodsOfTheMap == <<"triste", "deprimido", "estressado", "ansioso">>

negative_moods == <<"triste", "deprimido", "estressado", "ansioso", "mal">>

\* A faulty variant of relaxing_occasions: 'praia' left out.
RelaxingWithoutPraia == <<"férias", "viagem", "relaxar">>

relaxing_occasions == <<"praia", "férias", "viagem", "relaxar">>

MoodMinRating == 40

OccasionMinRating == 35

\* target_genre is None or a string; `not target_genre` holds of None and of "".
recommend_by_mood(mood, target_genre, limit) ==
    LET genre == IF target_genre = None \/ target_genre = Some("")
                 THEN Get(mood_to_genre_map, lower(mood), "Romance")
                 ELSE target_genre[1]
        of_genre == get_books_by_genre(genre)
        kept == IF InList(lower(mood), negative_moods)
                THEN SelectSeq(of_genre, LAMBDA book : book.rating >= MoodMinRating)
                ELSE of_genre
    IN Ranked(kept, limit)

recommend_by_occasion(occasion, target_genre, limit) ==
    LET genre == IF target_genre = None \/ target_genre = Some("")
                 THEN "Romance"
                 ELSE target_genre[1]
        of_genre == get_books_by_genre(genre)
        kept == IF InList(lower(occasion), relaxing_occasions)
                THEN SelectSeq(of_genre, LAMBDA book : book.rating >= OccasionMinRating)
                ELSE of_genre
    IN Ranked(kept, limit)

(***************************************************************************)
(* Python floats: IEEE 754 binary64 with round-half-to-even, for values    *)
(* that are neither negative nor subnormal nor infinite.  A natural number *)
(* of any size is the sequence of its digits in base LimbBase, the lowest  *)
(* first and the highest not 0; a float is mantissa * 2^exponent with the  *)
(* mantissa such a number, odd, below 2^53 (0.0 is mantissa <<>>,          *)
(* exponent 0), so that equal floats are equal records.                    *)
(***************************************************************************)
MantissaBits == 53

Pow2(k) == 2 ^ k

\* Digits of 13 binary digits: the product of two and a carry stay below 2^31.
LimbBits == MantissaBits \div 4

LimbBase == Pow2(LimbBits)

Limb(a, i) == IF i <= Len(a) THEN a[i] ELSE 0

\* The number without zero digits above its highest digit.
Trim(a) ==
    LET used == {i \in 1..Len(a) : a[i] # 0}
    IN IF used = {} THEN <<>> ELSE SubSeq(a, 1, MaxOf(used))

RECURSIVE BigOf(_)
BigOf(n) == IF n = 0 THEN <<>> ELSE <<n % LimbBase>> \o BigOf(n \div LimbBase)

RECURSIVE AddFrom(_, _, _, _)
AddFrom(a, b, i, carry) ==
    IF i > Max(Len(a), Len(b)) THEN (IF carry = 0 THEN <<>> ELSE <<carry>>)
    ELSE LET t == Limb(a, i) + Limb(b, i) + carry
         IN <<t % LimbBase>> \o AddFrom(a, b, i + 1, t \div LimbBase)

BigAdd(a, b) == AddFrom(a, b, 1, 0)

\* a - b for a >= b
RECURSIVE SubFromLimb(_, _, _, _)
SubFromLimb(a, b, i, borrow) ==
    IF i > Len(a) THEN <<>>
    ELSE LET t == Limb(a, i) - Limb(b, i) - borrow
         IN IF t < 0 THEN <<t + LimbBase>> \o SubFromLimb(a, b, i + 1, 1)
            ELSE <<t>> \o SubFromLimb(a, b, i + 1, 0)

BigSub(a, b) == Trim(SubFromLimb(a, b, 1, 0))

BigLess(a, b) ==
    LET differ == {i \in 1..Max(Len(a), Len(b)) : Limb(a, i) # Limb(b, i)}
    IN differ # {} /\ Limb(a, MaxOf(differ)) < Limb(b, MaxOf(differ))

\* a * k for 0 <= k < LimbBase
RECURSIVE MulFrom(_, _, _, _)
MulFrom(a, k, i, carry) ==
    IF i > Len(a) THEN (IF carry = 0 THEN <<>> ELSE <<carry>>)
    ELSE LET t == a[i] * k + carry
         IN <<t % LimbBase>> \o MulFrom(a, k, i + 1, t \div LimbBase)

MulSmall(a, k) == Trim(MulFrom(a, k, 1, 0))

\* a * LimbBase^n
ShiftLimbs(a, n) == IF a = <<>> THEN <<>> ELSE [i \in 1..n |-> 0] \o a

RECURSIVE MulByLimbs(_, _, _)
MulByLimbs(a, b, i) ==
    IF i > Len(b) THEN <<>>
    ELSE BigAdd(ShiftLimbs(MulSmall(a, b[i]), i - 1), MulByLimbs(a, b, i + 1))

BigMul(a, b) == MulByLimbs(a, b, 1)

\* a * 2^bits
ShiftLeft(a, bits) == ShiftLimbs(MulSmall(a, Pow2(bits % LimbBits)), bits \div LimbBits)

\* <<a div d, a mod d>> for 0 < d < 2^18, from digit i down with the remainder so far.
RECURSIVE DivFrom(_, _, _, _)
DivFrom(a, d, i, rem) ==
    IF i = 0 THEN <<<<>>, rem>>
    ELSE LET t == rem * LimbBase + a[i]
             rest == DivFrom(a, d, i - 1, t % d)
         IN <<Append(rest[1], t \div d), rest[2]>>

DivSmall(a, d) ==
    LET r == DivFrom(a, d, Len(a), 0)
    IN <<Trim(r[1]), r[2]>>

\* a div 2^bits
ShiftRight(a, bits) ==
    LET limbs == bits \div LimbBits
    IN IF limbs >= Len(a) THEN <<>>
       ELSE DivSmall(SubSeq(a, limbs + 1, Len(a)), Pow2(bits % LimbBits))[1]

\* The number of binary digits of a.
BitLength(a) ==
    IF a = <<>> THEN 0
    ELSE LimbBits * (Len(a) - 1) + MinOf({k \in 1..LimbBits : a[Len(a)] < Pow2(k)})

\* How many times 2 divides a, for a # 0.
TrailingZeros(a) ==
    LET low == MinOf({i \in 1..Len(a) : a[i] # 0})
    IN LimbBits * (low - 1) + MaxOf({k \in 0..LimbBits : a[low] % Pow2(k) = 0})

Float(mantissa, exponent) == [mantissa |-> mantissa, exponent |-> exponent]

\* mantissa * 2^exponent with the mantissa made odd.
Normal(mantissa, exponent) ==
    IF mantissa = <<>> THEN Float(<<>>, 0)
    ELSE LET zeros == TrailingZeros(mantissa)
         IN Float(ShiftRight(mantissa, zeros), exponent + zeros)

\* The float nearest to (mantissa + f) * 2^exponent, where 0 < f < 1 when
\* inexact and f = 0 otherwise: on a tie the one with the even mantissa.
RoundHalfEven(mantissa, exponent, inexact) ==
    LET drop == BitLength(mantissa) - MantissaBits
        kept == ShiftRight(mantissa, drop)
        dropped == BigSub(mantissa, ShiftLeft(kept, drop))
        half == ShiftLeft(<<1>>, drop - 1)
        up == \/ BigLess(half, dropped)
              \/ dropped = half /\ (inexact \/ Limb(kept, 1) % 2 = 1)
    IN IF drop <= 0 THEN Normal(mantissa, exponent)
       ELSE Normal(IF up THEN BigAdd(kept, <<1>>) ELSE kept, exponent + drop)

\* The mantissas of x and y at their lower exponent.
Aligned(x, y) ==
    LET exponent == Min(x.exponent, y.exponent)
    IN [x |-> ShiftLeft(x.mantissa, x.exponent - exponent),
        y |-> ShiftLeft(y.mantissa, y.exponent - exponent),
        exponent |-> exponent]

Zero == Float(<<>>, 0)

FloatLess(x, y) ==
    IF y = Zero THEN FALSE
    ELSE IF x = Zero THEN TRUE
    ELSE BigLess(Aligned(x, y).x, Aligned(x, y).y)

FloatLeq(x, y) == ~FloatLess(y, x)

\* x + y
FloatAdd(x, y) ==
    LET a == Aligned(x, y)
    IN IF x = Zero THEN y
       ELSE IF y = Zero THEN x
       ELSE RoundHalfEven(BigAdd(a.x, a.y), a.exponent, FALSE)

\* abs(x - y)
FloatAbsDiff(x, y) ==
    LET a == Aligned(x, y)
    IN IF x = Zero THEN y
       ELSE IF y = Zero THEN x
       ELSE RoundHalfEven(IF BigLess(a.x, a.y) THEN BigSub(a.y, a.x) ELSE BigSub(a.x, a.y),
                          a.exponent, FALSE)

\* x * y
FloatMul(x, y) ==
    IF x = Zero \/ y = Zero THEN Zero
    ELSE RoundHalfEven(BigMul(x.mantissa, y.mantissa), x.exponent + y.exponent, FALSE)

\* Binary digits a quotient is taken to before it is rounded.
GuardBits == MantissaBits + 17

\* x / d for an integer 0 < d < LimbBase
FloatDivInt(x, d) ==
    LET q == DivSmall(ShiftLeft(x.mantissa, GuardBits), d)
    IN IF x = Zero THEN Zero
       ELSE RoundHalfEven(q[1], x.exponent - GuardBits, q[2] # 0)

\* float(n) for an integer 0 <= n < 2^31
FloatOfInt(n) == Normal(BigOf(n), 0)

\* The float nearest to n / d: the value of a decimal literal, and n / d for integers.
FloatOfRatio(n, d) == FloatDivInt(FloatOfInt(n), d)

\* A faulty variant of OneMinusOrZero: abs(1 - x).
OneMinusAbs(x) == FloatAbsDiff(FloatOfInt(1), x)

\* max(0, 1 - x)
OneMinusOrZero(x) ==
    IF FloatLeq(FloatOfInt(1), x) THEN FloatOfInt(0) ELSE FloatAbsDiff(FloatOfInt(1), x)

(***************************************************************************)
(* RecommendationEngine.calculate_similarity                               *)
(***************************************************************************)
\* The sum so far after each of the four steps, as the code adds to similarity.
calculate_similarity(book1, book2) ==
    LET same_genre == IF book1.genre = book2.genre
                      THEN FloatAdd(FloatOfInt(0), FloatOfRatio(4, 10)) ELSE FloatOfInt(0)
        same_author == IF book1.author = book2.author
                       THEN FloatAdd(same_genre, FloatOfRatio(3, 10)) ELSE same_genre
        rating_diff == FloatAbsDiff(FloatOfRatio(book1.rating, 10), FloatOfRatio(book2.rating, 10))
        rating_similarity == OneMinusOrZero(FloatDivInt(rating_diff, 5))
        with_rating == FloatAdd(same_author, FloatMul(rating_similarity, FloatOfRatio(2, 10)))
        year_diff == IF book1.year >= book2.year THEN book1.year - book2.year
                     ELSE book2.year - book1.year
        year_similarity == OneMinusOrZero(FloatOfRatio(year_diff, 50))
    IN FloatAdd(with_rating, FloatMul(year_similarity, FloatOfRatio(1, 10)))

(***************************************************************************)
(* The settings of NLPPipeline.  The threshold is held in hundredths.      *)
(***************************************************************************)
\* A faulty variant of set_confidence_threshold: no lower end of the range.
OnlyCapped(threshold) == Min(threshold, 90)

\* A faulty variant of set_confidence_threshold: the argument stored as given.
StoredAsGiven(threshold) == threshold

\* The value set_confidence_threshold(threshold) stores.
set_confidence_threshold(threshold) == Max(10, Min(threshold, 90))

\* The value set_advanced_processing(enabled) stores.
set_advanced_processing(enabled) == enabled

\* A faulty variant of ConfiguredThreshold: an argument left out brings the
\* initial threshold back.
ResetWhenLeftOut(argument, current) ==
    IF argument # None THEN set_confidence_threshold(argument[1]) ELSE 30

\* The threshold after the first `if` of configure_nlp, the flag after the
\* second: an argument that is None leaves the value as it is.
ConfiguredThreshold(argument, current) ==
    IF argument # None THEN set_confidence_threshold(argument[1]) ELSE current

ConfiguredFlag(argument, current) ==
    IF argument # None THEN set_advanced_processing(argument[1]) ELSE current

(***************************************************************************)
(* BookstoreAI (main.py).  The text of a reply is left out: it is built    *)
(* from the books found and read by no operation.                          *)
(***************************************************************************)
ZeroStats ==
    [total_requests |-> 0, simple_processing |-> 0, advanced_processing |-> 0,
     unknown_intents |-> 0]

NotConfiguring == [pc |-> "idle"]

\* BookstoreAI.__init__ and NLPPipeline.__init__, as far as they set state.
Constructed ==
    /\ confidence_threshold = 30
    /\ advanced_processing_enabled = TRUE
    /\ stats = ZeroStats
    /\ configuring = NotConfiguring

\* entities.get(key, default)
EntityGet(entities, key, default) ==
    IF key \in DOMAIN entities THEN entities[key] ELSE default

\* The counters, total_requests already raised, after a message classified
\* as intent is counted under the threshold read at that moment.
Counted(counters, intent, threshold) ==
    LET simple == FracLeq(Frac(threshold, 100), intent.confidence)
    IN [total_requests |-> counters.total_requests,
        simple_processing |-> counters.simple_processing + (IF simple THEN 1 ELSE 0),
        advanced_processing |-> counters.advanced_processing + (IF simple THEN 0 ELSE 1),
        unknown_intents |-> counters.unknown_intents
                            + (IF intent.name = "unknown" THEN 1 ELSE 0)]

\* The books the branch of process_chat_message for the intent recommends.
Recommended(intent) ==
    LET entities == intent.entities
    IN CASE intent.name = "recommend_by_genre" ->
              recommend_by_genre(EntityGet(entities, "target", ""), DefaultLimit)
         [] intent.name = "recommend_by_author" ->
              recommend_by_author(EntityGet(entities, "author", ""), DefaultLimit)
         [] intent.name = "recommend_similar" ->
              recommend_similar_books(EntityGet(entities, "target", ""), DefaultLimit)
         [] intent.name = "books_by_year" ->
              recommend_by_year(EntityGet(entities, "year", 0), DefaultLimit)
         [] intent.name = "bestsellers" -> recommend_bestsellers(TRUE, DefaultLimit)
         [] intent.name = "non_bestsellers" -> recommend_bestsellers(FALSE, DefaultLimit)
         [] intent.name = "recommend_by_mood" ->
              recommend_by_mood(EntityGet(entities, "mood", ""),
                                Some(EntityGet(entities, "target", "Romance")), DefaultLimit)
         [] intent.name = "recommend_by_occasion" ->
              recommend_by_occasion(EntityGet(entities, "occasion", ""),
                                    Some(EntityGet(entities, "target", "Romance")),
                                    DefaultLimit)
         [] OTHER -> <<>>

\* The call of the engine that branch makes.
EngineCall(intent) ==
    LET entities == intent.entities
    IN CASE intent.name = "recommend_by_genre" ->
              [op |-> "recommend_by_genre", genre |-> EntityGet(entities, "target", ""),
               limit |-> DefaultLimit]
         [] intent.name = "recommend_by_author" ->
              [op |-> "recommend_by_author", author |-> EntityGet(entities, "author", ""),
               limit |-> DefaultLimit]
         [] intent.name = "recommend_similar" ->
              [op |-> "recommend_similar_books",
               book_title |-> EntityGet(entities, "target", ""), limit |-> DefaultLimit]
         [] intent.name = "books_by_year" ->
              [op |-> "recommend_by_year", year |-> EntityGet(entities, "year", 0),
               limit |-> DefaultLimit]
         [] intent.name \in {"bestsellers", "non_bestsellers"} ->
              [op |-> "recommend_bestsellers",
               is_bestseller |-> (intent.name = "bestsellers"), limit |-> DefaultLimit]
         [] intent.name = "recommend_by_mood" ->
              [op |-> "recommend_by_mood", mood |-> EntityGet(entities, "mood", ""),
               target_genre |-> Some(EntityGet(entities, "target", "Romance")),
               limit |-> DefaultLimit]
         [] intent.name = "recommend_by_occasion" ->
              [op |-> "recommend_by_occasion",
               occasion |-> EntityGet(entities, "occasion", ""),
               target_genre |-> Some(EntityGet(entities, "target", "Romance")),
               limit |-> DefaultLimit]

ChatResponse(recommended_books, intent, confidence) ==
    [recommended_books |-> recommended_books, intent |-> intent, confidence |-> confidence]

\* round(part / total * 100, 2), in hundredths of a percent.
Percentage(part, total) ==
    LET quotient == (part * 10000) \div total
        rest == (part * 10000) % total
    IN IF 2 * rest > total \/ (2 * rest = total /\ quotient % 2 = 1)
       THEN quotient + 1 ELSE quotient

\* What get_ai_stats returns for the counters and settings it read.
AiStats(counters, threshold, enabled) ==
    LET total == Max(counters.total_requests, 1)
    IN [total_requests |-> counters.total_requests,
        simple_processing |-> counters.simple_processing,
        advanced_processing |-> counters.advanced_processing,
        unknown_intents |-> counters.unknown_intents,
        simple_processing_percentage |-> Percentage(counters.simple_processing, total),
        advanced_processing_percentage |->
            Percentage(counters.advanced_processing, total),
        unknown_intents_percentage |-> Percentage(counters.unknown_intents, total),
        success_rate |-> Percentage(total - counters.unknown_intents, total),
        nlp_settings |-> [confidence_threshold |-> threshold,
                          advanced_processing_enabled |-> enabled]]

(***************************************************************************)
(* The inputs the operations are run on.                                   *)
(***************************************************************************)
MaxBooks == 3       \* the longest catalog

MaxLimit == 2       \* the limits are 0, MaxLimit and the default

MaxPad == 1         \* whitespace characters around an utterance

BookPool ==
    { Book(1, "It", "Stephen King", "Terror", 1986, TRUE, 42),
      Book(2, "Carrie", "Stephen King", "Terror", 1974, TRUE, 30),
      Book(3, "Drácula", "Bram Stoker", "Terror", 1897, FALSE, 49),
      Book(4, "O Iluminado", "Stephen King", "Terror", 1977, TRUE, 48),
      Book(5, "Frankenstein", "Mary Shelley", "Terror", 1818, FALSE, 40),
      Book(6, "Orgulho e Preconceito", "Jane Austen", "Romance", 1813, TRUE, 42),
      Book(7, "A Culpa é das Estrelas", "John Green", "Romance", 2012, TRUE, 38),
      Book(8, "Como Eu Era Antes de Você", "Jojo Moyes", "Romance", 2012, FALSE, 30) }

\* The catalogs of at most n books of the pool, no book twice, in any order.
RECURSIVE CatalogsUpTo(_)
CatalogsUpTo(n) ==
    IF n = 0 THEN {<<>>}
    ELSE LET shorter == CatalogsUpTo(n - 1)
         IN shorter \cup
            { Append(c, b) : <<c, b>> \in
                { <<c, b>> \in shorter \X BookPool :
                    Len(c) = n - 1 /\ \A i \in 1..Len(c) : c[i].id # b.id } }

Catalogs == CatalogsUpTo(MaxBooks)

\* Three books alike in genre, year, rating and sales, two of them by one
\* author: the catalogs where the order of equally rated books shows.
TiedPool ==
    { Book(12, "Doutor Sono", "Stephen King", "Terror", 2012, TRUE, 42),
      Book(13, "Joyland", "Stephen King", "Terror", 2012, TRUE, 42),
      Book(14, "A Estrada da Noite", "Joe Hill", "Terror", 2012, TRUE, 42) }

TiedCatalogs ==
    { c \in UNION { [1..n -> TiedPool] : n \in 0..Min(MaxBooks, Cardinality(TiedPool)) } :
        \A i, j \in 1..Len(c) : i # j => c[i].id # c[j].id }

Limits == {0, MaxLimit, DefaultLimit}

GenreArgs == {"Terror", "romance", "Poesia"}

AuthorArgs == {"king", "e"}

TitleArgs == {"it", "DRÁCULA", "senhor dos anéis", ""}

YearArgs == {2012, 2000}

MoodArgs == {"triste", "Mal", "feliz"}

OccasionArgs == {"Praia", "trabalho"}

TargetArgs == {None, Some(""), Some("terror")}

UpperOf == [c \in CharsOf(LowerLetters) |->
              CharAt(UpperLetters, CHOOSE i \in 1..Len(LowerLetters) : CharAt(LowerLetters, i) = c)]

UpperChar(c) == IF c \in DOMAIN UpperOf THEN UpperOf[c] ELSE IF c = SharpS THEN "SS" ELSE c

RECURSIVE upper(_)
upper(s) ==
    IF Len(s) <= 1 THEN UpperChar(s)
    ELSE LET half == Len(s) \div 2
         IN upper(SubSeq(s, 1, half)) \o upper(SubSeq(s, half + 1, Len(s)))

PadChars == {" ", "\t"}

\* The strings of at most n whitespace characters.
RECURSIVE Pads(_)
Pads(n) == IF n = 0 THEN {""} ELSE Pads(n - 1) \cup {p \o c : <<p, c>> \in Pads(n - 1) \X PadChars}

\* s in its own, lower and upper case, with whitespace around it.
Variants(s) == { l \o v \o r : <<l, v, r>> \in Pads(MaxPad) \X {s, lower(s), upper(s)} \X Pads(MaxPad) }

YearStrings == {"2020", "1999", "0050", "19", "5"}

YearUtterances ==
    { f \o y : <<f, y>> \in {"livros de ", "Livros de ", "publicados em ", "do ano ",
                             "lançados em ", "século ", "livros do século "} \X YearStrings }

FirstMoodWords == {"triste", "feliz", "estressado", "ansioso", "deprimido", "animado", "bem", "mal"}

MoodUtterances ==
    { "estou " \o a \o b \o w :
        <<a, b, w>> \in {"", "me sentindo "} \X {"", "muito "} \X FirstMoodWords }

\* Phrases that match patterns of different intents, for utterances that hold two.
MixedPhrases ==
    {"gosto de livros de terror", "livros de 2020", "obras de king", "bestsellers",
     "não bestsellers", "estou triste", "vou viajar", "parecido com duna",
     "livros famosos", "algo leve", "quero ler ficção científica"}

MixedUtterances == { a \o " " \o b : <<a, b>> \in MixedPhrases \X MixedPhrases }

OtherUtterances ==
    {"", "   ", "olá", "qual é o melhor", "algo emocionante", "gosto de ficção científica",
     "me sentindo para baixo", "me sentindo triste", "humor feliz", "dia ruim",
     "preciso de algo que me anime", "quero chorar", "quero algo profundo",
     "preciso relaxar", "estou nostálgico", "para ler no avião", "leitura de férias",
     "algo para passar o tempo", "entre reuniões", "no metrô", "para estudar",
     "recomende livros de horror", "me interessam sci-fi", "livros do gênero policial",
     "curto magia", "adoro amor", "queria suspense", "busco literatura",
     "stephen king escreveu", "tem asimov na biblioteca", "conhece tolkien",
     "já leu dan brown", "autor tolkein", "escrito por J.K. Rowling",
     "mostre livros de agatha cristie", "livros do autor george orwell agora",
     "li o livro it e gostei", "gostei do livro carrie", "como duna", "estilo kafka",
     "mais vendidos", "cult", "indies", "menos conhecidos", "sucessos", "sucesso", "conhece \nfoo", "já leu \n",
     "por favor me diga quais são os livros mais vendidos de hoje",
     "eu queria muito saber se vocês têm premiados", "da década de 1990",
     "publicados em 1999 neste século", "Do ano 2020 do SÉCULO 21",
     "obras de saramago", "obras de   x"}

CompoundGenreNames == {"ficção científica", "literatura brasileira"}

CompoundUtterances ==
    { f \o g : <<f, g>> \in {"gosto de ", "quero ler ", "livros de ", "recomende "}
                             \X CompoundGenreNames }

Utterances ==
    Variants("Gosto de livros de terror") \cup YearUtterances \cup MoodUtterances
    \cup MixedUtterances \cup OtherUtterances \cup CompoundUtterances

CanonicalAuthors == { famous_authors[k][1] : k \in 1..Len(famous_authors) }

AuthorAliases ==
    UNION { { famous_authors[k][2][j] : j \in 1..Len(famous_authors[k][2]) } :
              k \in 1..Len(famous_authors) }

AuthorFragments ==
    CanonicalAuthors \cup AuthorAliases \cup Variants("King") \cup Variants("Dan Brown")
    \cup {"xyzabc123", "", "stephen kin", "tolkein", "j.r.r tolkien", "orwel",
          "george orwel", "agatha cristie", "paulo coelo", "dan browm", "machado de asis",
          "isac asimov", "kafka franz", "franz kafk", "albert camu", "h.g wells",
          "edgar alan poe", "yuval harari", "frank herbert jr", "stephen  king"}

GenreNames == { genre_synonyms[k][1] : k \in 1..Len(genre_synonyms) }

SynonymWords ==
    UNION { { genre_synonyms[k][2][j] : j \in 1..Len(genre_synonyms[k][2]) } :
              k \in 1..Len(genre_synonyms) }

ExpandTexts ==
    GenreNames \cup SynonymWords
    \cup {"", "Horror", "x-horror", "horrores", "um livro de amor e guerra",
          "gosto de livros de terror", "quero ler ficção científica"}

ConfidenceTexts ==
    {"", "bestsellers", "os bestsellers", "gosto de livros de terror",
     "eu acho que gosto de livros de terror", "estou triste", "hoje estou muito triste",
     "quais livros de 2020", "por favor me diga quais são os livros mais vendidos de hoje",
     "x escreveu", "conhece king"}

\* The books calculate_similarity is given: those of the pool, a second
\* edition alike in genre, author, rating and year, and the lowest and the
\* highest rating.
SimilarityBooks ==
    BookPool \cup
    { Book(9, "It: A Coisa", "Stephen King", "Terror", 1986, TRUE, 42),
      Book(10, "Poemas Esquecidos", "Anônimo", "Poesia", 2020, FALSE, 0),
      Book(11, "Dom Casmurro", "Machado de Assis", "Literatura Brasileira", 1899, TRUE, 50) }

\* The catalog the assistant is started with.
Shelf == CHOOSE c \in Catalogs : Len(c) = MaxBooks /\ \A i \in 1..Len(c) : c[i].id = 4 + i

MaxRequests == 1    \* the messages counted before the counters are reset

\* Thresholds in hundredths: below, at the ends of, inside and above the range.
ThresholdArgs == {-50, 9, 10, 55, 90, 91, 100000}

\* The arguments of configure_nlp: a value, or None for an argument left out.
ConfigureThresholds == {None, Some(9), Some(55), Some(91)}

ConfigureFlags == {None, Some(TRUE), Some(FALSE)}

\* A message of each intent, one no pattern matches and one that makes
\* process raise; a message in upper case and with whitespace around it, and
\* one with a letter that upper case does not keep.
ChatMessages ==
    {"quero ler terror e mais alguma coisa boa hoje", "obras de king",
     "li o livro it e gostei", "publicados em 2012", "mais vendidos",
     "menos conhecidos", "estou triste", "algo para relaxar", "olá", "conhece \nfoo",
     "quero ler terror", upper("quero ler terror"), "\tquero ler terror ",
     "quero ler spaß", upper("quero ler spaß")}

\* process(message) for the messages of the assistant.
Classified == [message \in ChatMessages |-> process(message)]

(***************************************************************************)
(* The operations, one action each: call holds the operation and its       *)
(* arguments, ret what it returned.                                        *)
(***************************************************************************)
Idle == [op |-> "idle"]

RecommendOps ==
    {"recommend_by_genre", "recommend_by_author", "recommend_similar_books",
     "recommend_by_year", "recommend_bestsellers", "recommend_by_mood",
     "recommend_by_occasion"}

\* A call is made when none is in progress; it is kept with what it returns.
Invoke(c, result) ==
    /\ call = Idle
    /\ call' = c
    /\ ret' = result
    /\ UNCHANGED <<books, settings, stats, configuring, remembered>>

Process ==
    \E text \in Utterances :
        Invoke([op |-> "process", text |-> text],
               process(text))

ExpandSynonyms ==
    \E text \in ExpandTexts :
        Invoke([op |-> "_expand_synonyms", text |-> text, expanded |-> FALSE],
               _expand_synonyms(text))

\* _expand_synonyms applied to the text it returned.
ExpandAgain ==
    /\ call.op = "_expand_synonyms" /\ ~call.expanded
    /\ call' = [op |-> "_expand_synonyms", text |-> ret, expanded |-> TRUE]
    /\ ret' = _expand_synonyms(ret)
    /\ UNCHANGED <<books, settings, stats, configuring, remembered>>

FindBestAuthorMatch ==
    \E author_input \in AuthorFragments :
        Invoke([op |-> "_find_best_author_match", author_input |-> author_input],
               _find_best_author_match(author_input))

CalculateConfidence ==
    \E text \in ConfidenceTexts, k \in 1..Len(PatternOrder) :
        Invoke([op |-> "_calculate_confidence", text |-> text, pattern |-> k],
               _calculate_confidence(text, PatternOrder[k][2]))

CalculateSimilarity ==
    \E book1 \in SimilarityBooks, book2 \in SimilarityBooks :
        Invoke([op |-> "calculate_similarity", book1 |-> book1, book2 |-> book2],
               calculate_similarity(book1, book2))

FindBookByTitle ==
    \E title \in TitleArgs :
        Invoke([op |-> "find_book_by_title", title |-> title], find_book_by_title(title))

RecommendByGenre ==
    \E genre \in GenreArgs, limit \in Limits :
        Invoke([op |-> "recommend_by_genre", genre |-> genre, limit |-> limit],
               recommend_by_genre(genre, limit))

RecommendByAuthor ==
    \E author \in AuthorArgs, limit \in Limits :
        Invoke([op |-> "recommend_by_author", author |-> author, limit |-> limit],
               recommend_by_author(author, limit))

RecommendSimilarBooks ==
    \E book_title \in TitleArgs, limit \in Limits :
        Invoke([op |-> "recommend_similar_books", book_title |-> book_title,
                limit |-> limit],
               recommend_similar_books(book_title, limit))

RecommendByYear ==
    \E year \in YearArgs, limit \in Limits :
        Invoke([op |-> "recommend_by_year", year |-> year, limit |-> limit],
               recommend_by_year(year, limit))

RecommendBestsellers ==
    \E is_bestseller \in BOOLEAN, limit \in Limits :
        Invoke([op |-> "recommend_bestsellers", is_bestseller |-> is_bestseller,
                limit |-> limit],
               recommend_bestsellers(is_bestseller, limit))

RecommendByMood ==
    \E mood \in MoodArgs, target_genre \in TargetArgs, limit \in Limits :
        Invoke([op |-> "recommend_by_mood", mood |-> mood,
                target_genre |-> target_genre, limit |-> limit],
               recommend_by_mood(mood, target_genre, limit))

RecommendByOccasion ==
    \E occasion \in OccasionArgs, target_genre \in TargetArgs, limit \in Limits :
        Invoke([op |-> "recommend_by_occasion", occasion |-> occasion,
                target_genre |-> target_genre, limit |-> limit],
               recommend_by_occasion(occasion, target_genre, limit))

\* set_confidence_threshold and set_advanced_processing: one assignment each.
SetConfidenceThreshold ==
    /\ call = Idle
    /\ \E threshold \in ThresholdArgs :
         /\ call' = [op |-> "set_confidence_threshold", threshold |-> threshold]
         /\ confidence_threshold' = set_confidence_threshold(threshold)
    /\ ret' = None
    /\ UNCHANGED <<books, advanced_processing_enabled, stats, configuring, remembered>>

SetAdvancedProcessing ==
    /\ call = Idle
    /\ \E enabled \in BOOLEAN :
         /\ call' = [op |-> "set_advanced_processing", enabled |-> enabled]
         /\ advanced_processing_enabled' = set_advanced_processing(enabled)
    /\ ret' = None
    /\ UNCHANGED <<books, confidence_threshold, stats, configuring, remembered>>

\* configure_nlp, called by a second caller while the first may be inside an
\* operation of its own: nothing in BookstoreAI or NLPPipeline holds a lock,
\* so the two setter calls are two steps.  This step is the entry and the
\* first `if`; entered keeps the settings the call found.
ConfigureNlp ==
    /\ configuring = NotConfiguring
    /\ \E threshold \in ConfigureThresholds, advanced_processing \in ConfigureFlags :
         /\ configuring' = [pc |-> "set_advanced_processing",
                            confidence_threshold |-> threshold,
                            advanced_processing |-> advanced_processing,
                            entered |-> settings]
         /\ confidence_threshold' = ConfiguredThreshold(threshold, confidence_threshold)
    /\ UNCHANGED <<books, call, ret, advanced_processing_enabled, stats, remembered>>

\* The second `if` of configure_nlp, and its return.
ConfigureNlpAdvanced ==
    /\ configuring # NotConfiguring
    /\ advanced_processing_enabled' =
         ConfiguredFlag(configuring.advanced_processing, advanced_processing_enabled)
    /\ configuring' = NotConfiguring
    /\ UNCHANGED <<books, call, ret, confidence_threshold, stats, remembered>>

\* process_chat_message: the message counted, classified and answered.  An
\* exception of process leaves the method after total_requests is raised.
Answer(message, intent) ==
    LET counters == [stats EXCEPT !.total_requests = @ + 1]
    IN /\ call = Idle
       /\ stats.total_requests < MaxRequests
       /\ call' = [op |-> "process_chat_message", message |-> message]
       /\ IF IsRaised(intent)
          THEN stats' = counters /\ ret' = intent
          ELSE /\ stats' = Counted(counters, intent, confidence_threshold)
               /\ ret' = ChatResponse(Recommended(intent), intent.name, intent.confidence)
       /\ UNCHANGED <<books, settings, configuring, remembered>>

ProcessChatMessage == \E message \in ChatMessages : Answer(message, Classified[message])

\* process, called on a message of the assistant.
ProcessMessage ==
    \E text \in ChatMessages : Invoke([op |-> "process", text |-> text], Classified[text])

Recommend(intent) ==
    /\ ~IsRaised(intent)
    /\ intent.name # "unknown"
    /\ Invoke(EngineCall(intent), Recommended(intent))

\* The engine, called with the criteria of a message.
RecommendForMessage == \E message \in ChatMessages : Recommend(Classified[message])

ComplexQuery(primary_intent) ==
    IF IsRaised(primary_intent) THEN primary_intent
    ELSE [primary_intent |-> primary_intent]

\* process_complex_query, as far as its primary intent; the criteria, the
\* analysis and the suggestions are computed from the text alone.
ProcessComplexQuery ==
    \E text \in ChatMessages :
        Invoke([op |-> "process_complex_query", text |-> text],
               ComplexQuery(Classified[text]))

\* get_ai_stats up to the read of confidence_threshold.
GetAiStats ==
    /\ call = Idle
    /\ call' = [op |-> "get_ai_stats", pc |-> "advanced_processing_enabled",
                stats |-> stats, confidence_threshold |-> confidence_threshold]
    /\ ret' = None
    /\ UNCHANGED <<books, settings, stats, configuring, remembered>>

\* get_ai_stats from the read of advanced_processing_enabled to its return.
GetAiStatsAdvanced ==
    /\ call.op = "get_ai_stats" /\ call.pc = "advanced_processing_enabled"
    /\ call' = [op |-> "get_ai_stats", pc |-> "return"]
    /\ ret' = AiStats(call.stats, call.confidence_threshold, advanced_processing_enabled)
    /\ UNCHANGED <<books, settings, stats, configuring, remembered>>

ResetStats ==
    /\ call = Idle
    /\ call' = [op |-> "reset_stats"]
    /\ stats' = ZeroStats
    /\ ret' = [message |-> "Estatísticas resetadas com sucesso"]
    /\ UNCHANGED <<books, settings, configuring, remembered>>

\* A recommend_* call returns to a caller that keeps the list, in place of
\* the one it kept before.
Keep ==
    /\ call.op \in RecommendOps
    /\ remembered' = [call |-> call, ret |-> ret]
    /\ call' = Idle
    /\ ret' = None
    /\ UNCHANGED <<books, settings, stats, configuring>>

\* The call in progress returns to its caller.
Return ==
    /\ call # Idle
    /\ ~(call.op = "get_ai_stats" /\ call.pc # "return")
    /\ call' = Idle
    /\ ret' = None
    /\ UNCHANGED <<books, settings, stats, configuring, remembered>>

(***************************************************************************)
(* The pipeline on its own: no catalog is read (BookService starts with    *)
(* the empty list when its data file is missing).                          *)
(***************************************************************************)
Init == books = <<>> /\ call = Idle /\ ret = None /\ Constructed /\ remembered = None

Next ==
    \/ Process
    \/ ExpandSynonyms
    \/ ExpandAgain
    \/ FindBestAuthorMatch
    \/ CalculateConfidence
    \/ Return

Spec == Init /\ [][Next]_vars

(***************************************************************************)
(* The recommendation engine over a catalog loaded at start.               *)
(***************************************************************************)
InitEngine ==
    books \in Catalogs \cup TiedCatalogs /\ call = Idle /\ ret = None /\ Constructed /\ remembered = None

NextEngine ==
    \/ FindBookByTitle
    \/ RecommendByGenre
    \/ RecommendByAuthor
    \/ RecommendSimilarBooks
    \/ RecommendByYear
    \/ RecommendBestsellers
    \/ RecommendByMood
    \/ RecommendByOccasion
    \/ Return

SpecEngine == InitEngine /\ [][NextEngine]_vars

(***************************************************************************)
(* The engine and the pipeline called in turn on one catalog, by a caller  *)
(* that compares what a call returns with what it returned before.         *)
(***************************************************************************)
\* The catalogs of MaxBooks books with consecutive ids, in the order of ids.
Shelves ==
    {c \in Catalogs : Len(c) = MaxBooks /\ \A i \in 2..Len(c) : c[i].id = c[i - 1].id + 1}

InitCaller ==
    books \in Shelves /\ call = Idle /\ ret = None /\ Constructed /\ remembered = None

NextCaller ==
    \/ RecommendByGenre
    \/ RecommendByAuthor
    \/ RecommendSimilarBooks
    \/ RecommendByYear
    \/ RecommendBestsellers
    \/ RecommendByMood
    \/ RecommendByOccasion
    \/ ProcessMessage
    \/ Keep
    \/ Return

SpecCaller == InitCaller /\ [][NextCaller]_vars

(***************************************************************************)
(* The assistant: a caller of its operations, and a second caller that     *)
(* configures the pipeline meanwhile.                                      *)
(***************************************************************************)
InitApp == books = Shelf /\ call = Idle /\ ret = None /\ Constructed /\ remembered = None

NextApp ==
    \/ SetConfidenceThreshold
    \/ SetAdvancedProcessing
    \/ ConfigureNlp
    \/ ConfigureNlpAdvanced
    \/ ProcessMessage
    \/ RecommendForMessage
    \/ ProcessChatMessage
    \/ ProcessComplexQuery
    \/ GetAiStats
    \/ GetAiStatsAdvanced
    \/ ResetStats
    \/ Return

SpecApp == InitApp /\ [][NextApp]_vars

(***************************************************************************)
(* The assistant over a catalog with more books of a genre than one answer *)
(* holds.                                                                  *)
(***************************************************************************)
LongShelf ==
    LET pool == BookPool \cup TiedPool
    IN [k \in 1..Cardinality(pool) |->
            CHOOSE b \in pool : Cardinality({c \in pool : c.id < b.id}) = k - 1]

InitChat == books = LongShelf /\ call = Idle /\ ret = None /\ Constructed /\ remembered = None

NextChat ==
    \/ ProcessMessage
    \/ RecommendForMessage
    \/ ProcessChatMessage
    \/ ResetStats
    \/ Return

SpecChat == InitChat /\ [][NextChat]_vars

(***************************************************************************)
(* calculate_similarity on pairs of books.                                 *)
(***************************************************************************)
NextSimilarity ==
    \/ CalculateSimilarity
    \/ Return

SpecSimilarity == InitApp /\ [][NextSimilarity]_vars

(***************************************************************************)
(* The properties.                                                         *)
(***************************************************************************)
Ratings(list) == [i \in 1..Len(list) |-> list[i].rating]

\* C1: whenever recommend_similar_books finds the reference book, every book
\* of the result by the reference's author stands before every book by
\* another author, whatever their ratings.
C1_SameAuthorBeforeOthers ==
    call.op = "recommend_similar_books" /\ find_book_by_title(call.book_title) # None
    => LET reference == find_book_by_title(call.book_title)[1]
       IN \A i, j \in 1..Len(ret) :
            ret[i].author = reference.author /\ ret[j].author # reference.author => i < j

\* Whether the book passes the filter of the recommendation c asks for.
PassesFilter(c, book) ==
    LET wanted == IF c.target_genre \in {None, Some("")}
                  THEN (IF c.op = "recommend_by_mood"
                        THEN Get(mood_to_genre_map, lower(c.mood), "Romance")
                        ELSE "Romance")
                  ELSE c.target_genre[1]
    IN CASE c.op = "recommend_by_genre" -> lower(book.genre) = lower(c.genre)
         [] c.op = "recommend_by_author" -> Contains(lower(book.author), lower(c.author))
         [] c.op = "recommend_by_year" -> book.year = c.year
         [] c.op = "recommend_bestsellers" -> book.bestseller = c.is_bestseller
         [] c.op = "recommend_similar_books" ->
              /\ find_book_by_title(c.book_title) # None
              /\ lower(book.genre) = lower(find_book_by_title(c.book_title)[1].genre)
              /\ book.id # find_book_by_title(c.book_title)[1].id
         [] c.op = "recommend_by_mood" ->
              /\ lower(book.genre) = lower(wanted)
              /\ InList(lower(c.mood), negative_moods) => book.rating >= 40
         [] c.op = "recommend_by_occasion" ->
              /\ lower(book.genre) = lower(wanted)
              /\ InList(lower(c.occasion), relaxing_occasions) => book.rating >= 35

\* C2: every recommend_* operation returns books whose ratings never rise from
\* first to last, at most limit of them (5 when the limit is omitted), and they
\* are the highest-rated of the books that pass the operation's filter.
C2_RankedWithinLimit ==
    call.op \in RecommendOps
    => LET passing == {k \in 1..Len(books) : PassesFilter(call, books[k])}
           returned == {k \in passing : \E i \in 1..Len(ret) : ret[i] = books[k]}
       IN /\ \A i \in 1..(Len(ret) - 1) : ret[i].rating >= ret[i + 1].rating
          /\ Len(ret) <= call.limit
          /\ Len(ret) = Min(call.limit, Cardinality(passing))
          /\ Cardinality(returned) = Len(ret)
          /\ \A k \in passing \ returned, i \in 1..Len(ret) : ret[i].rating >= books[k].rating

\* Three Terror books rated 4.2, 4.8, 4.0 and limit 2 give [4.8, 4.2].
C2_Witness ==
    /\ call = [op |-> "recommend_by_genre", genre |-> "Terror", limit |-> 2]
    /\ Ratings(books) = <<42, 48, 40>>
    /\ \A k \in 1..Len(books) : books[k].genre = "Terror"
    /\ Ratings(ret) = <<48, 42>>

\* C3: an utterance "livros de <four digits>" is classified as books_by_year
\* with year equal to that number; so is "livros de 2020", with year 2020.
C3_YearUtterance ==
    \A y \in {d \in YearStrings : Len(d) = 4} :
        call = [op |-> "process", text |-> "livros de " \o y]
        => /\ ~IsRaised(ret)
           /\ ret.name = "books_by_year"
           /\ ret.entities = ("year" :> int(y))

\* C4: for "estou <w>", with "me sentindo" or "muito" before w or without, w a
\* mood word of the first mood pattern, the intent is recommend_by_mood and
\* the mood entity is exactly w; for "estou triste" the target is "Romance".
C4_MoodWord ==
    \A a \in {"", "me sentindo "}, b \in {"", "muito "}, w \in FirstMoodWords :
        call = [op |-> "process", text |-> "estou " \o a \o b \o w]
        => /\ ~IsRaised(ret)
           /\ ret.name = "recommend_by_mood"
           /\ ret.entities.mood = w
           /\ w = "triste" /\ a = "" /\ b = "" => ret.entities.target = "Romance"

DeclaredIntents ==
    <<"recommend_by_genre", "recommend_by_author", "recommend_similar", "books_by_year",
      "bestsellers", "non_bestsellers", "recommend_by_mood", "recommend_by_occasion">>

\* The <<intent number, pattern number>> of every pattern that matches text.
Matching(text) ==
    { m \in UNION { { <<ii, pp>> : pp \in 1..Len(intent_patterns[ii][2]) } :
                      ii \in 1..Len(intent_patterns) } :
        re_search(intent_patterns[m[1]][2][m[2]], text).ok }

\* C5: intents are tried in the declared order and the patterns of an intent in
\* theirs: when patterns match the expanded utterance, the intent returned is
\* the earliest declared one that has a matching pattern, and the entities
\* are those of its first matching pattern.
C5_EarliestDeclaredWins ==
    call.op = "process"
    => LET text == Prepare(call.text)
           matching == Matching(text)
           ii == MinOf({m[1] : m \in matching})
           pp == MinOf({m[2] : m \in {x \in matching : x[1] = ii}})
           pattern == intent_patterns[ii][2][pp]
           entities == IF HasGroup(pattern)
                       THEN Entities(DeclaredIntents[ii], text, re_search(pattern, text))
                       ELSE <<>>
       IN /\ [i \in 1..Len(intent_patterns) |-> intent_patterns[i][1]] = DeclaredIntents
          /\ matching # {}
             => IF IsRaised(entities) THEN ret = entities
                ELSE ret.name = DeclaredIntents[ii] /\ ret.entities = entities

\* A genre pattern and a mood pattern both match; the genre intent is returned.
C5_Witness ==
    /\ call = [op |-> "process", text |-> "gosto de livros de terror estou triste"]
    /\ \E m \in Matching(Prepare(call.text)) : DeclaredIntents[m[1]] = "recommend_by_mood"
    /\ ~IsRaised(ret)
    /\ ret.name = "recommend_by_genre"

\* C6: expanding synonyms in a text that is already expanded gives the same
\* text.
C6_ExpandIdempotent ==
    call.op = "_expand_synonyms" /\ call.expanded => ret = call.text

NoPatternMatches(text) ==
    \A k \in 1..Len(PatternOrder) : ~re_search(PatternOrder[k][2], text).ok

\* C7: when no pattern matches the expanded utterance process returns exactly
\* Intent('unknown', 0.0, {}), and it returns 'unknown' in that case only.
C7_UnknownIffNoMatch ==
    call.op = "process"
    => LET none == NoPatternMatches(Prepare(call.text))
       IN /\ none => /\ ~IsRaised(ret)
                     /\ ret.name = "unknown"
                     /\ FracEq(ret.confidence, Frac(0, 1))
                     /\ ret.entities = <<>>
          /\ ~IsRaised(ret) /\ ret.name = "unknown" => none

\* The empty utterance is unknown.
C7_Witness ==
    /\ call = [op |-> "process", text |-> ""]
    /\ ret = Intent("unknown", Frac(0, 1), <<>>)

InConfidenceRange(c) == FracLeq(Frac(0, 1), c) /\ FracLeq(c, Frac(95, 100))

\* C8: every confidence process or _calculate_confidence returns is in
\* [0.0, 0.95], and that of an intent other than unknown is above 0.
C8_ConfidenceRange ==
    /\ call.op = "_calculate_confidence" => InConfidenceRange(ret)
    /\ call.op = "process" /\ ~IsRaised(ret)
       => /\ InConfidenceRange(ret.confidence)
          /\ ret.name # "unknown" => FracLess(Frac(0, 1), ret.confidence)

\* The whole text matches at its start: 0.95 and the bonus, brought back to 0.95.
C8_Witness ==
    /\ call.op = "_calculate_confidence"
    /\ call.text = "bestsellers"
    /\ re_search(PatternOrder[call.pattern][2], call.text).ok
    /\ FracEq(ret, Frac(95, 100))

\* C9: "Gosto de livros de terror", in any letter case and with whitespace
\* around it, is recommend_by_genre with target "terror" and confidence
\* above 0.3.
C9_GenreUtterance ==
    call.op = "process" /\ call.text \in Variants("Gosto de livros de terror")
    => /\ ~IsRaised(ret)
       /\ ret.name = "recommend_by_genre"
       /\ ret.entities = ("target" :> "terror")
       /\ FracLess(Frac(3, 10), ret.confidence)

C9_Witness ==
    /\ call = [op |-> "process", text |-> "\tGOSTO DE LIVROS DE TERROR "]
    /\ ret.name = "recommend_by_genre"
    /\ ret.entities = ("target" :> "terror")

\* What the resolution order stated in C10 gives for the fragment.
ResolvedInOrder(fragment) ==
    LET a == strip(lower(fragment))
        authors == 1..Len(famous_authors)
        listing == {k \in authors : InList(a, famous_authors[k][2])}
        alike == [k \in authors |-> ratio(a, famous_authors[k][1])]
        most == {k \in authors : \A j \in authors : FracLeq(alike[j], alike[k])}
    IN IF \E k \in authors : famous_authors[k][1] = a THEN Some(a)
       ELSE IF listing # {} THEN Some(famous_authors[MinOf(listing)][1])
       ELSE IF FracLess(Frac(7, 10), alike[MinOf(most)])
       THEN Some(famous_authors[MinOf(most)][1])
       ELSE None

\* C10: _find_best_author_match resolves the lower-cased, trimmed fragment to
\* the canonical name it equals, else to the first canonical name listing it as
\* an alias, else to the first of the canonical names most similar to it when
\* that ratio exceeds 0.7, else to none; "king" is "stephen king" and
\* "xyzabc123" is none.
C10_ResolutionOrder ==
    call.op = "_find_best_author_match"
    => /\ ret = ResolvedInOrder(call.author_input)
       /\ call.author_input = "king" => ret = Some("stephen king")
       /\ call.author_input = "xyzabc123" => ret = None

\* A misspelt name is resolved by similarity.
C10_Witness ==
    /\ call = [op |-> "_find_best_author_match", author_input |-> "dan browm"]
    /\ ret = Some("dan brown")

\* The threshold requested by the step, if the step calls
\* set_confidence_threshold or enters configure_nlp with one; None otherwise.
RequestedThreshold ==
    IF call = Idle /\ call'.op = "set_confidence_threshold" THEN Some(call'.threshold)
    ELSE IF configuring = NotConfiguring /\ configuring' # NotConfiguring
    THEN configuring'.confidence_threshold
    ELSE None

\* C11: the assistant starts with threshold 0.3 and the advanced-processing
\* flag True; whatever set_confidence_threshold and configure_nlp calls are
\* made, the threshold stays in [0.1, 0.9]: a requested value below 0.1 is
\* stored as 0.1, one above 0.9 as 0.9, one inside the range as it is.
C11_ThresholdInRange ==
    /\ confidence_threshold = 30 /\ advanced_processing_enabled = TRUE
    /\ [](confidence_threshold \in 10..90)
    /\ [][RequestedThreshold # None
          => LET requested == RequestedThreshold[1]
             IN confidence_threshold' = IF requested < 10 THEN 10
                                        ELSE IF requested > 90 THEN 90
                                        ELSE requested]_vars

\* configure_nlp(0.91, ...) has stored 0.9, found by another configure_nlp
\* with the same request; set_confidence_threshold(-0.5) then stored 0.1.
C11_Witness ==
    /\ call = [op |-> "set_confidence_threshold", threshold |-> -50]
    /\ confidence_threshold = 10
    /\ configuring # NotConfiguring
    /\ configuring.confidence_threshold = Some(91)
    /\ configuring.entered[1] = 90

\* The settings in place once the configure_nlp call in progress has returned.
SettingsAfter(c) ==
    <<IF c.confidence_threshold # None
      THEN set_confidence_threshold(c.confidence_threshold[1]) ELSE c.entered[1],
      IF c.advanced_processing # None THEN c.advanced_processing[1] ELSE c.entered[2]>>

\* C12: get_ai_stats returning while a configure_nlp call is in progress has
\* read a (threshold, flag) pair that is either the pair that call found or the
\* pair it leaves, never the new threshold with the old flag.
C12_NoTornRead ==
    call.op = "get_ai_stats" /\ call.pc = "return" /\ configuring # NotConfiguring
    => <<ret.nlp_settings.confidence_threshold,
         ret.nlp_settings.advanced_processing_enabled>>
       \in {configuring.entered, SettingsAfter(configuring)}

\* The operations that are no configuration operation.
OtherOps ==
    {"process", "process_complex_query", "process_chat_message", "get_ai_stats",
     "reset_stats"} \cup RecommendOps

\* C13: the threshold and the flag change only in a configuration operation:
\* a step of process, process_complex_query, process_chat_message,
\* get_ai_stats, reset_stats or a recommend_* operation leaves both as they
\* are; set_confidence_threshold leaves the flag, set_advanced_processing the
\* threshold, and configure_nlp a value whose argument is None.
C13_SettingsFrame ==
    [][/\ call' # call /\ call'.op \in OtherOps => UNCHANGED settings
       /\ call' # call /\ call'.op = "set_confidence_threshold"
          => UNCHANGED advanced_processing_enabled
       /\ call' # call /\ call'.op = "set_advanced_processing"
          => UNCHANGED confidence_threshold
       /\ configuring = NotConfiguring /\ configuring' # NotConfiguring
          => /\ UNCHANGED advanced_processing_enabled
             /\ configuring'.confidence_threshold = None => UNCHANGED confidence_threshold
       /\ configuring # NotConfiguring /\ configuring' = NotConfiguring
          => /\ UNCHANGED confidence_threshold
             /\ configuring.advanced_processing = None
                => UNCHANGED advanced_processing_enabled
       /\ confidence_threshold' # confidence_threshold => RequestedThreshold # None
       /\ advanced_processing_enabled' # advanced_processing_enabled
          => \/ call' # call /\ call'.op = "set_advanced_processing"
             \/ configuring # NotConfiguring /\ configuring' = NotConfiguring
      ]_vars

\* Settings changed from the initial ones, of which configure_nlp(None, False)
\* is leaving the threshold, and a message has just been answered.
C13_Witness ==
    /\ confidence_threshold = 55
    /\ configuring # NotConfiguring
    /\ configuring.confidence_threshold = None
    /\ configuring.advanced_processing = Some(FALSE)
    /\ call.op = "process_chat_message"
    /\ ~IsRaised(ret)
    /\ ret.recommended_books # <<>>

C15_ProcessNeverRaises ==
    call.op = "process" => ~IsRaised(ret) /\ DOMAIN ret = {"name", "confidence", "entities"}

\* Whether the title of the k-th book of the catalog holds the fragment,
\* letter case apart.
TitleHolds(k, fragment) == Contains(lower(books[k].title), lower(fragment))

\* C16: find_book_by_title returns the first book, in the order of the
\* catalog, whose title holds the fragment whatever the letter case, and
\* None when no title holds it; the empty fragment finds the first book of
\* a catalog that has one.
C16_FirstByTitle ==
    call.op = "find_book_by_title"
    => /\ (\A k \in 1..Len(books) : ~TitleHolds(k, call.title)) => ret = None
       /\ \A k \in 1..Len(books) :
            TitleHolds(k, call.title) /\ (\A j \in 1..(k - 1) : ~TitleHolds(j, call.title))
            => ret = Some(books[k])
       /\ call.title = "" /\ books # <<>> => ret = Some(books[1])

\* "it" is in "Orgulho e Preconceito" and is the title "It": the book listed
\* first is the one found.
C16_Witness ==
    /\ call = [op |-> "find_book_by_title", title |-> "it"]
    /\ Len(books) = 3
    /\ books[2].title = "Orgulho e Preconceito"
    /\ books[3].title = "It"
    /\ ret = Some(books[2])

\* C17: when no book of the catalog passes the filter of a recommend_*
\* operation (a genre, author or year no book has, an empty catalog, or
\* ratings all below the one the filter asks for), the operation returns the
\* empty list.
C17_EmptyWhenNothingPasses ==
    call.op \in RecommendOps /\ (\A k \in 1..Len(books) : ~PassesFilter(call, books[k]))
    => ret = <<>>

\* The only Terror book is rated 3.0, below the 4.0 a bad mood asks for.
C17_Witness ==
    /\ call = [op |-> "recommend_by_mood", mood |-> "Mal", target_genre |-> Some("terror"),
               limit |-> DefaultLimit]
    /\ Len(books) = 2
    /\ books[1].title = "Carrie"
    /\ books[2].genre = "Romance"
    /\ ret = <<>>

\* Whether ret holds the best rated of the books of the catalog that are of
\* the genre and pass: as many as the limit allows, none rated below a
\* passing book left out.
BestOf(genre, passes(_)) ==
    LET passing == {k \in 1..Len(books) :
                      lower(books[k].genre) = lower(genre) /\ passes(books[k])}
        returned == {k \in passing : \E i \in 1..Len(ret) : ret[i] = books[k]}
    IN /\ Len(ret) = Min(call.limit, Cardinality(passing))
       /\ Cardinality(returned) = Len(ret)
       /\ \A i \in 1..(Len(ret) - 1) : ret[i].rating >= ret[i + 1].rating
       /\ \A k \in passing \ returned, i \in 1..Len(ret) : ret[i].rating >= books[k].rating

\* C18: recommend_by_mood takes the books of target_genre or, when none is
\* given, of the genre its mood map has for the lower-cased mood, 'Romance'
\* when it has none.  For the moods triste, deprimido, estressado, ansioso
\* and mal, in any letter case, every book returned is rated 4.0 or more; for
\* any other mood the best rated books of the genre are returned whatever
\* their ratings.
C18_MoodFilter ==
    call.op = "recommend_by_mood"
    => LET mood == lower(call.mood)
           genre == IF call.target_genre \in {None, Some("")}
                    THEN (IF HasKey(mood_to_genre_map, mood)
                          THEN Get(mood_to_genre_map, mood, "") ELSE "Romance")
                    ELSE call.target_genre[1]
           negative == mood \in {"triste", "deprimido", "estressado", "ansioso", "mal"}
       IN /\ negative => \A i \in 1..Len(ret) : ret[i].rating >= 40
          /\ negative => BestOf(genre, LAMBDA book : book.rating >= 40)
          /\ ~negative => BestOf(genre, LAMBDA book : TRUE)

\* In a bad mood ("Mal"), of the Terror books rated 4.2, 3.0 and 4.9 the one
\* rated 3.0 is not returned.
C18_Witness ==
    /\ call = [op |-> "recommend_by_mood", mood |-> "Mal", target_genre |-> Some("terror"),
               limit |-> DefaultLimit]
    /\ Ratings(books) = <<42, 30, 49>>
    /\ \A k \in 1..Len(books) : books[k].genre = "Terror"
    /\ Ratings(ret) = <<49, 42>>

\* C19: recommend_by_occasion takes the books of target_genre, of 'Romance'
\* when none is given.  For the occasions praia, férias, viagem and relaxar,
\* in any letter case, every book returned is rated 3.5 or more; for any
\* other occasion the best rated books of the genre are returned whatever
\* their ratings.
C19_OccasionFilter ==
    call.op = "recommend_by_occasion"
    => LET genre == IF call.target_genre \in {None, Some("")} THEN "Romance"
                    ELSE call.target_genre[1]
           relaxing == lower(call.occasion) \in {"praia", "férias", "viagem", "relaxar"}
       IN /\ relaxing => \A i \in 1..Len(ret) : ret[i].rating >= 35
          /\ relaxing => BestOf(genre, LAMBDA book : book.rating >= 35)
          /\ ~relaxing => BestOf(genre, LAMBDA book : TRUE)

\* For the beach ("Praia") and no genre given, of the Romance books rated
\* 3.0, 3.8 and 4.2 the one rated 3.0 is not returned.
C19_Witness ==
    /\ call = [op |-> "recommend_by_occasion", occasion |-> "Praia", target_genre |-> None,
               limit |-> DefaultLimit]
    /\ Ratings(books) = <<30, 38, 42>>
    /\ \A k \in 1..Len(books) : books[k].genre = "Romance"
    /\ Ratings(ret) = <<42, 38>>

\* C20: recommend_similar_books returns the empty list when no title of the
\* catalog holds the fragment; otherwise the reference book, the first whose
\* title holds it, is not among the books returned (no book returned has its
\* id), and every book returned is of the reference book's genre, letter
\* case apart.
C20_SimilarExcludesReference ==
    call.op = "recommend_similar_books"
    => LET holding == {k \in 1..Len(books) : TitleHolds(k, call.book_title)}
       IN IF holding = {} THEN ret = <<>>
          ELSE LET reference == books[MinOf(holding)]
               IN \A i \in 1..Len(ret) :
                    /\ ret[i].id # reference.id
                    /\ lower(ret[i].genre) = lower(reference.genre)

\* Of a catalog of Drácula, another Terror book and a Romance book, the
\* other Terror book alone is returned.
C20_Witness ==
    /\ call = [op |-> "recommend_similar_books", book_title |-> "DRÁCULA",
               limit |-> DefaultLimit]
    /\ Len(books) = 3
    /\ \E k \in 1..3 : books[k].title = "Drácula"
    /\ \E k \in 1..3 : books[k].genre = "Romance"
    /\ Len(ret) = 1
    /\ ret[1].genre = "Terror"

\* The number in year_patterns of the first year pattern that matches text.
FirstYearPattern(text) ==
    MinOf({k \in 1..Len(year_patterns) : re_search(year_patterns[k], text).ok})

\* C21: for every utterance classified as books_by_year, the year is the
\* number written by the captured digits when the expanded utterance does not
\* hold 'século', and (c - 1) * 100 + 50 for the captured number c when it
\* does, whichever year pattern matched.
C21_YearOrCentury ==
    call.op = "process" /\ ~IsRaised(ret) /\ ret.name = "books_by_year"
    => LET text == Prepare(call.text)
           pattern == year_patterns[FirstYearPattern(text)]
           digits == Group(text, re_search(pattern, text), 1)
       IN /\ \A i \in 1..Len(digits) : CharAt(digits, i) \in DigitChars
          /\ DOMAIN ret.entities = {"year"}
          /\ ret.entities.year = IF Contains(text, "século")
                                 THEN (int(digits) - 1) * 100 + 50
                                 ELSE int(digits)

\* Four digits captured by 'publicados em' beside the century marker are
\* taken for a century.
C21_Witness ==
    /\ call = [op |-> "process", text |-> "publicados em 1999 neste século"]
    /\ ret.name = "books_by_year"
    /\ ret.entities = ("year" :> 199850)

\* The intent of the first pattern that matches the prepared text, "unknown"
\* when none does.
FirstIntent(text) ==
    LET k == FirstMatching(Prepare(text), 1, Len(PatternOrder))
    IN IF k = 0 THEN "unknown" ELSE PatternOrder[k][1]

\* The genre the table gives for the word, "Romance" when it has none.
GenreFor(table, word) ==
    LET mapped == {i \in 1..Len(table) : table[i][1] = word}
    IN IF mapped = {} THEN "Romance" ELSE table[CHOOSE i \in mapped : TRUE][2]

\* C22: for every utterance classified as recommend_by_mood the target is the
\* genre mood_to_genre gives for the mood entity, "Romance" when the mood is
\* not a key of the table; likewise for recommend_by_occasion with
\* occasion_to_genre and the occasion entity.  When process raises, the first
\* pattern that matched is neither a mood nor an occasion pattern.
C22_TargetFromTable ==
    call.op = "process"
    => /\ IsRaised(ret)
          => FirstIntent(call.text) \notin {"recommend_by_mood", "recommend_by_occasion"}
       /\ ~IsRaised(ret) /\ ret.name = "recommend_by_mood"
          => /\ DOMAIN ret.entities = {"mood", "target"}
             /\ ret.entities.target = GenreFor(mood_to_genre, ret.entities.mood)
       /\ ~IsRaised(ret) /\ ret.name = "recommend_by_occasion"
          => /\ DOMAIN ret.entities = {"occasion", "target"}
             /\ ret.entities.target = GenreFor(occasion_to_genre, ret.entities.occasion)

\* "no avião" is not a key of occasion_to_genre ("avião" is): the target is
\* "Romance".
C22_Witness ==
    /\ call = [op |-> "process", text |-> "para ler no avião"]
    /\ ret.name = "recommend_by_occasion"
    /\ ret.entities.occasion = "no avião"
    /\ ~HasKey(occasion_to_genre, "no avião")
    /\ ret.entities.target = "Romance"

\* The number in author_patterns of the first author pattern that matches text.
FirstAuthorPattern(text) ==
    MinOf({k \in 1..Len(author_patterns) : re_search(author_patterns[k], text).ok})

\* C23: for every utterance classified as recommend_by_author the author
\* entity is the canonical name _find_best_author_match gives for the trimmed
\* captured fragment, and the trimmed fragment itself when it gives none.
\* When process raises on an utterance whose first matching pattern is an
\* author pattern, no fragment was captured: an author that is not resolved
\* is not what makes it raise.
C23_AuthorOrFragment ==
    call.op = "process"
    => /\ ~IsRaised(ret) /\ ret.name = "recommend_by_author"
          => LET text == Prepare(call.text)
                 match == re_search(author_patterns[FirstAuthorPattern(text)], text)
                 fragment == strip(Group(text, match, 1))
                 resolved == _find_best_author_match(fragment)
             IN /\ Participated(match, 1)
                /\ DOMAIN ret.entities = {"author"}
                /\ resolved # None => ret.entities.author = resolved[1]
                /\ resolved = None => ret.entities.author = fragment
       /\ IsRaised(ret) /\ FirstIntent(call.text) = "recommend_by_author"
          => LET text == Prepare(call.text)
                 match == re_search(author_patterns[FirstAuthorPattern(text)], text)
             IN ~Participated(match, 1)

\* "saramago" is no author of the table and is like none: it is the author.
C23_Witness ==
    /\ call = [op |-> "process", text |-> "obras de saramago"]
    /\ _find_best_author_match("saramago") = None
    /\ ret.name = "recommend_by_author"
    /\ ret.entities = ("author" :> "saramago")

\* The numbers in genre_patterns of the patterns that capture a compound genre
\* name, and of those that capture a single word.
CompoundPatterns ==
    {k \in 1..Len(genre_patterns) : genre_patterns[k][Len(genre_patterns[k])] = CompoundGenres}

SingleWordPatterns ==
    {k \in 1..Len(genre_patterns) : genre_patterns[k][Len(genre_patterns[k])] = WordGroup}

\* C24: among the patterns of recommend_by_genre that match an expanded
\* utterance, every one that captures a compound genre name stands before
\* every one that captures a single word; so "gosto de", "quero ler",
\* "livros de" or "recomende" followed by "ficção científica" or "literatura
\* brasileira" is recommend_by_genre with the whole compound name for target.
C24_CompoundBeforeSingleWord ==
    call.op = "process"
    => /\ call.text \in CompoundUtterances
          => LET text == Prepare(call.text)
             IN \A c \in CompoundPatterns, w \in SingleWordPatterns :
                    re_search(genre_patterns[c], text).ok /\ re_search(genre_patterns[w], text).ok
                    => c < w
       /\ \A g \in CompoundGenreNames :
            call.text \in {f \o g : f \in {"gosto de ", "quero ler ", "livros de ", "recomende "}}
            => /\ ~IsRaised(ret)
               /\ ret.name = "recommend_by_genre"
               /\ ret.entities = ("target" :> g)

\* min(0.95, x) and x + y on fractions.
AtMost95(x) == IF FracLeq(x, Frac(95, 100)) THEN x ELSE Frac(95, 100)

FracSum(x, y) == Frac(x.n * y.d + y.n * x.d, x.d * y.d)

\* C25: _calculate_confidence never raises.  When the pattern matches the
\* text it returns min(0.95, b + bonus), where b = min(0.95, 2 * matchLength /
\* textLength) and bonus is 0.1 when the match starts at an index strictly
\* below 30% of the text length and 0 otherwise; when the pattern does not
\* match, as in the empty text, it returns 0.3.
C25_ConfidenceFormula ==
    call.op = "_calculate_confidence"
    => LET match == re_search(PatternOrder[call.pattern][2], call.text)
           textLength == Len(call.text)
           matchLength == match.end - match.start
           b == AtMost95(Frac(2 * matchLength, textLength))
           bonus == IF 10 * (match.start - 1) < 3 * textLength
                    THEN Frac(1, 10) ELSE Frac(0, 1)
       IN /\ ~IsRaised(ret)
          /\ match.ok => textLength > 0 /\ FracEq(ret, AtMost95(FracSum(b, bonus)))
          /\ ~match.ok => ret = Frac(3, 10)
          /\ call.text = "" => ~match.ok

\* 'mais vendidos' is found late in a long text: twice its share of the
\* text, without the bonus.
C25_Witness ==
    /\ call.op = "_calculate_confidence"
    /\ call.text = "por favor me diga quais são os livros mais vendidos de hoje"
    /\ PatternOrder[call.pattern][2] = <<Lit("mais vendidos")>>
    /\ 10 * (re_search(PatternOrder[call.pattern][2], call.text).start - 1) >= 3 * Len(call.text)
    /\ FracEq(ret, Frac(2 * Len("mais vendidos"), Len(call.text)))
    /\ FracLess(ret, Frac(95, 100))

\* 500 times the sum of C26 in exact arithmetic, the ratings being in tenths.
ExactSimilarity(b1, b2) ==
    LET rating_diff == IF b1.rating >= b2.rating THEN b1.rating - b2.rating
                       ELSE b2.rating - b1.rating
        year_diff == IF b1.year >= b2.year THEN b1.year - b2.year ELSE b2.year - b1.year
    IN (IF b1.genre = b2.genre THEN 200 ELSE 0) + (IF b1.author = b2.author THEN 150 ELSE 0)
       + Max(0, 100 - 2 * rating_diff) + Max(0, 50 - year_diff)

\* The float x is within 2^-k of n / d.
FloatNear(x, n, d, k) ==
    LET scale == Max(k, 0 - x.exponent)
        left == ShiftLeft(MulSmall(x.mantissa, d), x.exponent + scale)
        right == ShiftLeft(BigOf(n), scale)
        apart == IF BigLess(left, right) THEN BigSub(right, left) ELSE BigSub(left, right)
    IN ~BigLess(ShiftLeft(BigOf(d), scale - k), apart)

One == FloatOfInt(1)

\* 1 - 2^-53, which Python prints as 0.9999999999999999
BelowOne == Float(BigSub(ShiftLeft(<<1>>, MantissaBits), <<1>>), 0 - MantissaBits)

SameFour(b1, b2) ==
    b1.genre = b2.genre /\ b1.author = b2.author /\ b1.rating = b2.rating /\ b1.year = b2.year

\* C26 as stated: calculate_similarity(b1, b2) is 0.4 for the same genre plus
\* 0.3 for the same author plus 0.2 * max(0, 1 - |rating difference| / 5) plus
\* 0.1 * max(0, 1 - |year difference| / 50), up to the rounding of floats; it is
\* in [0, 1], the same with its arguments exchanged, and 1 when both books
\* have the same genre, author, rating and year.
C26_SimilarityIsOneWhenAlike ==
    call.op = "calculate_similarity"
    => /\ FloatNear(ret, ExactSimilarity(call.book1, call.book2), 500, 50)
       /\ FloatLeq(Zero, ret) /\ FloatLeq(ret, One)
       /\ ret = calculate_similarity(call.book2, call.book1)
       /\ SameFour(call.book1, call.book2) => ret = One

\* C26 with the value the floats give: the sum is within 2^-50 of its exact
\* value, in [0, 1) and the same with its arguments exchanged; when both
\* books have the same genre, author, rating and year it is 1 - 2^-53, the
\* largest value it takes, and so never 1.
C26_SimilarityBelowOne ==
    call.op = "calculate_similarity"
    => /\ FloatNear(ret, ExactSimilarity(call.book1, call.book2), 500, 50)
       /\ FloatLeq(Zero, ret) /\ FloatLeq(ret, BelowOne)
       /\ ret = calculate_similarity(call.book2, call.book1)
       /\ SameFour(call.book1, call.book2) => ret = BelowOne
       /\ ret # One

\* Two editions alike in genre, author, rating and year: 0.4 + 0.3 + 0.2 + 0.1
\* in floats.
C26_Witness ==
    /\ call.op = "calculate_similarity"
    /\ call.book1.id = 1 /\ call.book2.id = 9
    /\ SameFour(call.book1, call.book2)
    /\ ExactSimilarity(call.book1, call.book2) = 500
    /\ ret = BelowOne
    /\ FloatLess(ret, One)

\* C27: after any sequence of process_chat_message, with any message, also
\* one that makes process or a recommendation raise, of reset_stats and of
\* configure_nlp, total_requests is simple_processing plus
\* advanced_processing; and reset_stats leaves the four counters at 0.
C27_CountersAddUp ==
    /\ stats.total_requests = stats.simple_processing + stats.advanced_processing
    /\ call.op = "reset_stats" => stats = ZeroStats

\* C28: in every reachable state, whatever thresholds were configured,
\* unknown_intents <= advanced_processing <= total_requests; a message
\* classified as unknown has confidence 0.0, below every threshold that can
\* be set, so it is counted as advanced processing and never as simple
\* processing.
C28_UnknownIsAdvanced ==
    /\ [](/\ stats.unknown_intents <= stats.advanced_processing
          /\ stats.advanced_processing <= stats.total_requests
          /\ confidence_threshold >= 10)
    /\ [][/\ call = Idle /\ call'.op = "process_chat_message"
          /\ ~IsRaised(ret') /\ ret'.intent = "unknown"
          => /\ FracEq(ret'.confidence, Frac(0, 1))
             /\ stats'.unknown_intents = stats.unknown_intents + 1
             /\ stats'.advanced_processing = stats.advanced_processing + 1
             /\ stats'.simple_processing = stats.simple_processing]_vars

\* "olá" is unknown; under the lowest threshold that can be set, 0.1, it is
\* counted as advanced processing.
C28_Witness ==
    /\ call = [op |-> "process_chat_message", message |-> "olá"]
    /\ ret.intent = "unknown"
    /\ confidence_threshold = 10
    /\ stats = [total_requests |-> 1, simple_processing |-> 0, advanced_processing |-> 1,
                unknown_intents |-> 1]

\* Where a book of a result stands in the catalog.
CatalogIndex(book) == CHOOSE k \in 1..Len(books) : books[k] = book

\* The reference book of a recommend_similar_books call is by this author.
ByReferenceAuthor(book) ==
    book.author = find_book_by_title(call.book_title)[1].author

\* C29: ranking is stable.  Of two equally rated books in the result of a
\* recommend_* operation, the one the catalog lists first comes first; in
\* recommend_similar_books a book by the reference book's author comes before
\* an equally rated book by another author, and the catalog's order decides
\* between two books that are both by that author or both by others.
C29_RankingIsStable ==
    call.op \in RecommendOps =>
        \A i, j \in 1..Len(ret) :
            i < j /\ ret[i].rating = ret[j].rating =>
                IF call.op = "recommend_similar_books"
                THEN IF ByReferenceAuthor(ret[i]) = ByReferenceAuthor(ret[j])
                     THEN CatalogIndex(ret[i]) < CatalogIndex(ret[j])
                     ELSE ByReferenceAuthor(ret[i])
                ELSE CatalogIndex(ret[i]) < CatalogIndex(ret[j])

\* Equally rated books were ranked for a similar-books recommendation: the
\* book by the reference's author is ahead of the book by another author that
\* the catalog lists before it.
C29_Witness ==
    /\ call.op = "recommend_similar_books"
    /\ Len(ret) = 2
    /\ ret[1].rating = ret[2].rating
    /\ ByReferenceAuthor(ret[1]) /\ ~ByReferenceAuthor(ret[2])
    /\ CatalogIndex(ret[2]) < CatalogIndex(ret[1])

\* The messages of the assistant that are message in upper case, or message
\* with whitespace before and after it.
Recased ==
    [message \in ChatMessages |->
        {other \in ChatMessages :
            \/ other = upper(message)
            \/ \E l, r \in Pads(MaxPad) : other = l \o message \o r}]

\* process_chat_message answered with the intent and confidence of
\* process(message), with at most 5 books, and with none for 'unknown'.
AnswersAsClassified ==
    call.op = "process_chat_message" /\ ~IsRaised(ret) =>
        /\ ~IsRaised(Classified[call.message])
        /\ ret.intent = Classified[call.message].name
        /\ ret.confidence = Classified[call.message].confidence
        /\ Len(ret.recommended_books) <= 5
        /\ ret.intent = "unknown" => ret.recommended_books = <<>>

\* The statement of C30 as it was made: a message is answered with the intent
\* and confidence of process(message), at most 5 books and none for
\* 'unknown', and process gives the same for a message in upper case or with
\* whitespace around it.
C30_SameInAnyCase ==
    /\ AnswersAsClassified
    /\ call.op = "process" =>
           \A other \in Recased[call.text] : Classified[other] = ret

\* C30: a message is answered with the intent and confidence of
\* process(message), at most 5 books and none for 'unknown'; process gives the
\* same for a message with whitespace around it, and for the message in upper
\* case when lower case brings that back to the lower case of the message.
C30_SameWhenCaseIsKept ==
    /\ AnswersAsClassified
    /\ call.op = "process" =>
           \A other \in Recased[call.text] :
              lower(other) = lower(call.text) \/ other # upper(call.text)
              => Classified[other] = ret

\* A message in upper case was answered as process answers it in lower case,
\* with 5 of the books that the catalog has for it.
C30_Witness ==
    /\ call = [op |-> "process_chat_message", message |-> upper("quero ler terror")]
    /\ ret.intent = "recommend_by_genre"
    /\ ret.confidence = Classified["quero ler terror"].confidence
    /\ Len(ret.recommended_books) = 5
    /\ Len(get_books_by_genre("terror")) > 5

====
